---------------------------- MODULE Spec2Model ----------------------------
(* Model of the task-transition engine of Flow-Tracking-Production:        *)
(*   Publish.publish        (src/publish.py)                               *)
(*   Review.update_version  (src/review.py)                                *)
(* One run of a handler over the selected items is a behaviour: the item   *)
(* loop is stepped item by item (publish: begin / one step per file slot / *)
(* finish), followed by the single flush of the accumulated batch.         *)
(* The record store, the path template service, the role check and the     *)
(* file transfer are the environment: their answers are drawn with \E.     *)
EXTENDS Integers, Sequences, FiniteSets, TLC

(***************************************************************************)
(* Bounds                                                                  *)
(***************************************************************************)
\* number of selected items (tasks for publish, versions for review)
MaxItems == 2
\* other techfix records still pending for the same originating task
MaxPending == 3
\* the largest number of fresh tasks the techfix query of the dialog returns
MaxFresh == 2

\* the most files attached to one slot of type Files
MaxFiles == 2

(***************************************************************************)
(* Python values                                                           *)
(***************************************************************************)
None == "None"

\* a Python dict is a function; the empty dict has the empty domain
EmptyDict == [k \in {} |-> None]

\* a merge in which the entries already in d win (dict.setdefault per key)
DictUpdateKeep(d, other) ==
    [k \in DOMAIN d \cup DOMAIN other |-> IF k \in DOMAIN d THEN d[k] ELSE other[k]]

\* dict.update(other): entries of other win over entries of d
DictUpdate(d, other) ==
    [k \in DOMAIN d \cup DOMAIN other |-> IF k \in DOMAIN other THEN other[k] ELSE d[k]]

\* dict.get(key, default)
DictGet(d, key, default) == IF key \in DOMAIN d THEN d[key] ELSE default

\* An optional parsed value: Python None, or a dict
NoneVal == [kind |-> "none", d |-> EmptyDict]
DictVal(f) == [kind |-> "dict", d |-> f]

\* Python truthiness of an optional dict: None and {} are falsy
PyTruthy(v) == v.kind = "dict" /\ DOMAIN v.d # {}

(***************************************************************************)
(* Run configuration (config_data[action]) and naming                      *)
(***************************************************************************)
\* sa_obj.action of a publish run and of a review run
ActionOf(f) == IF f = "publish" THEN "publish" ELSE "approve"

clientQcSteps == {"RigClientQC", "LgtClientQC"}
publishTags == <<"server", "ftp">>

validLeadStatus == {"rev"}
validLeadVerStatus == {"rev"}
validSupStatus == {"tlapr"}
validSupVerStatus == {"tlapr"}

LeadRoles == {"Lead", "Team Lead", "Admin", "Manager"}
SupRoles == {"Supervisor", "Admin", "Team Lead", "Lead", "Manager"}

\* Report reasons (the literal messages of the handlers)
R_ENTITY == "Selected Shot/Asset data is not found in SG"
R_NOCONFIG == "Valid config is not available in SG, please reach out to SG team!"
R_EMPTY == "Shotgrid Config is Empty for this Task, Please check with SG Team"
R_EMPTY_REVIEW == "Valid status not updated in SG Status Config, please reach out to SG team!"
R_STATUS == "Selected Task current status is not valid for this Action in SG"
R_ROLE == "role assignment message"
R_NOTECH == "Selected Task TechFixData Record is not available in SG"
R_NOFROM == "Selected Task TechFixData Record is not havingSource Task Data to update as TechFix Done,Please check with SG Team"
R_NOLGTQC == "LgtClientQC Task is not available in SG"
R_NORIGQC == "RigClientQC Task is not available in SG"
R_PUBLISHED == "Task is Successfully Published"
R_LEAD_TASK == "Task status is not valid for the Lead review"
R_LEAD_VER == "Version status is not valid for the Lead review"
R_SUP_TASK == "Task status is not valid for the Supervisor review"
R_SUP_VER == "Version status is not valid for the Supervisor review"
R_NOUSER == "User is not valid to review the task, Please check the Team Lead or Supervisor field and update accordingly!!"
R_TRACEBACK == "traceback"

\* The statements that raise into the handler's except clause
E_PARSE == "ast.literal_eval(config field)"
E_ACTION == "status_config[self.sa_obj.action]"
E_STATUS == "status_config[current_status]"
E_SLOTS == "for each in file_configs"
E_FROMTASK == "tech_from_task_data[-1]"
E_NOTASK == "task[FIELDS[Task][status]]"
E_BATCH == "self.sg_obj.batch(batch_data)"

\* copy() / get_published_file_data messages, accumulated in overall_msg
M_NOSOURCE == "Source path does not exist."
M_COPYERR == "copy error"
M_NOPUBLISH == "Error During creating PublishFile Record in ShotGrid; "


(***************************************************************************)
(* Transition config records (CustomEntity24) of the project               *)
(***************************************************************************)
\* statusConfig / fileConfig are stored as string-encoded literals
S_A == "{'publish': {'apr': 'cmpt', 'tlapr': 'cmpt'}, 'approve': {'rev': 'tlapr', 'tlapr': 'apr'}}"
S_B == "{'publish': {'apr': 'pub', 'rev': 'cmpt'}, 'approve': {'rev': 'tlapr'}}"
S_NOACT == "{'submit': {'wip': 'rev'}}"
S_EMPTY == "{}"
S_BAD == "{'publish': "
S_A_MERGED == "{'publish': {'apr': 'cmpt', 'tlapr': 'pub', 'movapr': 'pub'}, 'approve': {'rev': 'tlapr', 'tlapr': 'apr'}}"
S_B_MERGED == "{'publish': {'apr': 'pub', 'rev': 'cmpt', 'tlapr': 'pub', 'movapr': 'pub'}, 'approve': {'rev': 'tlapr'}}"
F_FULL == "{'cmpt': {'Maya File': .., 'Notes': ..}, 'movcpt': {'Mov File': .., 'Maya File': ..}}"
F_NODEF == "{'pub': {'Mov File': ..}}"

MayaSlot == [type |-> "File", name |-> "Maya File", workarea |-> "workPath", filter |-> "Maya Files(*.ma)",
             mandatory |-> TRUE, server |-> "serverPath", ftp |-> ""]
NotesSlot == [type |-> "File", name |-> "Notes", workarea |-> "", filter |-> "",
              mandatory |-> FALSE, server |-> "", ftp |-> ""]
MovSlot == [type |-> "File", name |-> "Mov File", workarea |-> "workMov", filter |-> "Mov Files(*.mov)",
            mandatory |-> FALSE, server |-> "serverMov", ftp |-> ""]
MovFtpSlot == [type |-> "File", name |-> "Mov File", workarea |-> "workMov", filter |-> "Mov Files(*.mov)",
               mandatory |-> FALSE, server |-> "", ftp |-> "ftpMov"]

FramesSlot == [type |-> "Files", name |-> "Frames", workarea |-> "workFrames",
               filter |-> "Images(*.exr)", mandatory |-> TRUE, server |-> "", ftp |-> ""]
PlayblastSlot == [type |-> "Movie", name |-> "Playblast", workarea |-> "workMov",
                  filter |-> "", mandatory |-> FALSE, server |-> "", ftp |-> ""]

\* A slot set (the ordered dict slotName -> slot config), or Python None
NoSlots == [kind |-> "none", slots |-> <<>>]
SlotSet(q) == [kind |-> "dict", slots |-> q]

\* The literals that ast.literal_eval can parse, with their values
ParsableLiterals == {S_A, S_B, S_NOACT, S_EMPTY, F_FULL, F_NODEF,
                     S_A_MERGED, S_B_MERGED}

LiteralValue(text) ==
    CASE text = S_A -> [publish |-> ("apr" :> "cmpt" @@ "tlapr" :> "cmpt"),
                        approve |-> ("rev" :> "tlapr" @@ "tlapr" :> "apr")]
      [] text = S_B -> [publish |-> ("apr" :> "pub" @@ "rev" :> "cmpt"),
                        approve |-> ("rev" :> "tlapr")]
      [] text = S_A_MERGED ->
            [publish |-> ("apr" :> "cmpt" @@ "tlapr" :> "pub" @@ "movapr" :> "pub"),
             approve |-> ("rev" :> "tlapr" @@ "tlapr" :> "apr")]
      [] text = S_B_MERGED ->
            [publish |-> ("apr" :> "pub" @@ "rev" :> "cmpt" @@ "tlapr" :> "pub"
                          @@ "movapr" :> "pub"),
             approve |-> ("rev" :> "tlapr")]
      [] text = S_NOACT -> [submit |-> ("wip" :> "rev")]
      [] text = F_FULL -> [cmpt |-> SlotSet(<<MayaSlot, NotesSlot>>),
                           movcpt |-> SlotSet(<<MovSlot, MayaSlot>>)]
      [] text = F_NODEF -> [pub |-> SlotSet(<<MovFtpSlot>>)]
      [] OTHER -> EmptyDict

\* ast.literal_eval(x): raises on None, on "" and on text that is no literal
LiteralEvalRaises(x) == x \notin ParsableLiterals

\* truthiness of a raw field value: None and "" are falsy
RawTruthy(x) == x # None /\ x # ""

\* publish.py: ast.literal_eval(field) if field else None
ParseOrNone(x) == IF RawTruthy(x) THEN DictVal(LiteralValue(x)) ELSE NoneVal

ConfigRecord(etype, step, tname, sc, fc, qc) ==
    [entityType |-> etype, pathSheetName |-> step, taskName |-> tname,
     statusConfig |-> sc, fileConfig |-> fc, qcProcess |-> qc]

\* The config records of one pipeline step, in the order the store returns them
ConfigsOfStep(step) ==
    << ConfigRecord("Asset", step, <<"Main">>, S_A, F_FULL, TRUE),
       ConfigRecord("Asset", step, <<"NoQC">>, S_A, F_FULL, FALSE),
       ConfigRecord("Asset", step, <<"Null">>, None, F_FULL, TRUE),
       ConfigRecord("Asset", step, <<"NullF">>, S_A, None, TRUE),
       ConfigRecord("Asset", step, <<"Bad">>, S_BAD, F_FULL, TRUE),
       ConfigRecord("Asset", step, <<"Empty">>, S_EMPTY, F_FULL, TRUE),
       ConfigRecord("Asset", step, <<"NoAct">>, S_NOACT, F_FULL, TRUE),
       ConfigRecord("Asset", step, <<"Dup">>, S_A, F_FULL, TRUE),
       ConfigRecord("Shot", step, <<"Main">>, S_A, F_FULL, TRUE),
       ConfigRecord("Asset", step, <<"Dup">>, S_B, F_NODEF, TRUE) >>

StepSeq == <<"Animation", "Lighting", "Rig", "RigClientQC", "LgtClientQC", "Texture">>
Steps == {StepSeq[i] : i \in DOMAIN StepSeq}

RECURSIVE ProjectConfigsFrom(_)
ProjectConfigsFrom(i) ==
    IF i > Len(StepSeq) THEN <<>>
    ELSE ConfigsOfStep(StepSeq[i]) \o ProjectConfigsFrom(i + 1)

\* self.task_config_data: get_entity_data(..., "CustomEntity24", [project filter]),
\* loaded once by __init__ and never assigned again
task_config_data == ProjectConfigsFrom(1)

(***************************************************************************)
(* Selected tasks                                                          *)
(***************************************************************************)
\* A task name is its "_"-separated tokens: <<"Main", "TechFix">> is Main_TechFix
Statuses == {"rev", "apr", "tlapr", "movapr"}
SplitTypes == {"SPLIT", None}

\* str(task_name).endswith("_TechFix")
EndsWithTechFix(name) == Len(name) >= 2 /\ name[Len(name)] = "TechFix"

\* str(task_name).split("_", maxsplit=1)[0]
FirstToken(name) == <<name[1]>>

\* publish.py 208-216, review.py 255-261
ConfigTaskName(name, split) ==
    IF split = "SPLIT" THEN FirstToken(name)
    ELSE IF EndsWithTechFix(name) THEN FirstToken(name)
    ELSE name

\* the first record of a query result
FirstOf(q) == q[1]

\* a filter that leaves the task-name condition out
MatchingConfigsAnyName(cfgs, etype, step, tname) ==
    SelectSeq(cfgs, LAMBDA c : c.entityType = etype /\ c.pathSheetName = step)

\* the list comprehension that filters task_config_data
MatchingConfigs(cfgs, etype, step, tname) ==
    SelectSeq(cfgs, LAMBDA c : c.entityType = etype /\ c.pathSheetName = step
                               /\ c.taskName = tname)

\* task_config[-1]
LastOf(q) == q[Len(q)]

(***************************************************************************)
(* State                                                                   *)
(***************************************************************************)
VARIABLES
    func,               \* the handler this run executes: "publish" / "update_version"
    n,                  \* number of selected items
    current_user,       \* review: the acting user's permission role
    pc,                 \* "loop": top of the item loop, "validate": item fetched,
                        \* "slots": in the slot loop, "done"
    idx,                \* position in the selection of the item being processed
    task,               \* the task of the item being processed
    version,            \* review: the version being processed
    next_status,        \* publish: next_status of the item
    file_configs,       \* publish: slots of the item still to be processed
    overall_status,     \* publish: overall_status of the item
    overall_msg,        \* publish: overall_msg of the item (message fragments)
    report_list,        \* the outcome rows
    batch_data,         \* the accumulated batch operations
    publish_batch_data, \* publish: the accumulated PublishedFile creates
    store_calls,        \* the mutating calls issued to the record store, in order
    fatal,              \* None, or the statement whose exception the handler's
                        \* except clause caught
    role_checked,       \* validate_role_assignments was called for the current item
    valid_role_assignments, \* what that call returned (FALSE while not called)
    review_conds,       \* review: the lead and the supervisor condition as evaluated
                        \* for the last item that reached them (<<>>: not reached)
    copy_log,           \* the copies attempted during the run, in order
    tech_from_task_status,  \* publish: status read from the originating task of
                            \* the last techfix item (None: not read)
    from_task_wip,          \* publish: number of other pending techfix records the
                            \* store held for that originating task
    qc_task_status,         \* publish: what the query for the paired client-QC task
                            \* of the last item returned (<<>>: not queried,
                            \* <<"none">>: no such task, else <<its status>>)
    config_writes,          \* the assignments made during the run to the fields of
                            \* the records of self.task_config_data, in order
    source_exists,          \* publish: what os.path.exists(source) returned for the
                            \* slot processed last in the current item (<<>>: not
                            \* asked, else <<the answer>>)
    self,                   \* the Submission dialog: its fields, its widgets, and
                            \* what it has shown, copied and written so far
    fs,                     \* one call of sg_file_operations.copy(): its arguments,
                            \* the source and the destination on disk, its result
    world                   \* the record store shared by the runs of several
                            \* users, and those runs: what each read, queued and
                            \* reported

\* the state of a run of publish() / update_version()
run_vars == << func, n, current_user, pc, idx, task, version, next_status,
               file_configs, overall_status, overall_msg, report_list, batch_data,
               publish_batch_data, store_calls, fatal, role_checked,
               valid_role_assignments, review_conds, copy_log,
               tech_from_task_status, from_task_wip, qc_task_status,
               source_exists, config_writes >>

vars == << run_vars, self, fs, world >>

\* what a run of publish() / update_version() leaves alone
outside_run == << self, fs, world >>

\* what the Submission dialog leaves alone
outside_dialog == << run_vars, fs, world >>

\* the cascade ghosts
techfix_seen == << tech_from_task_status, from_task_wip, qc_task_status >>

NoTask == [id |-> 0, linkType |-> None, step |-> None, status |-> None,
           name |-> <<>>, split |-> None, teamLead |-> None, supervisor |-> None]
NoVersion == [id |-> 0, status |-> None, task_found |-> FALSE]

\* whether a task's team lead / supervisor is the acting user or someone else
Assignees == {"me", "other"}

\* The tasks a selection can hold; the i-th selected task has id i.
\* Tasks whose config parses vary in step, status and name; tasks with a
\* missing, null or unparsable config vary in step; split tasks and tasks
\* linked to a Shot vary in what the config lookup reads.
TaskInputs(i) ==
    [id : {i}, linkType : {"Asset"}, step : Steps \ {"LgtClientQC", "Texture"},
     status : {"rev", "apr", "tlapr"},
     name : { <<"Main">>, <<"NoQC">>, <<"Dup">> }, split : {None}, teamLead : {"other"}, supervisor : {"other"}]
    \cup
    [id : {i}, linkType : {"Asset"}, step : {"Animation", "RigClientQC"},
     status : Statuses, name : { <<"Main", "TechFix">> }, split : {None}, teamLead : {"other"}, supervisor : {"other"}]
    \cup
    [id : {i}, linkType : {"Asset"}, step : {"Animation", "RigClientQC"},
     status : {"apr", "movapr"},
     name : { <<"NoQC">>, <<"Null">>, <<"NullF">>, <<"Bad">>, <<"Empty">>,
              <<"NoAct">>, <<"Other">> },
     split : {None}, teamLead : {"other"}, supervisor : {"other"}]
    \cup
    [id : {i}, linkType : {"Asset"}, step : {"Animation"}, status : {"apr"},
     name : { <<"Main", "A">>, <<"Other", "TechFix">> }, split : SplitTypes, teamLead : {"other"}, supervisor : {"other"}]
    \cup
    [id : {i}, linkType : {"Shot"}, step : {"Animation", "Rig"}, status : {"apr"},
     name : { <<"Main">>, <<"NoQC">> }, split : {None}, teamLead : {"other"}, supervisor : {"other"}]
    \cup
    [id : {i}, linkType : {"Asset"}, step : {"LgtClientQC"}, status : {"tlapr"},
     name : { <<"Main">>, <<"NoQC">> }, split : {None}, teamLead : {"other"}, supervisor : {"other"}]
    \cup
    [id : {i}, linkType : {"Asset"}, step : {"Texture"}, status : {"apr"},
     name : { <<"Main">> }, split : {None}, teamLead : {"other"}, supervisor : {"other"}]

\* A report row; item stands for the row's labels (the "Shot/Asset" and "Task"
\* names of the i-th selected item), 0 for the empty labels of the synthetic row
Row(i, success, reason) == [item |-> i, Success |-> success, Reason |-> reason]

UpdateOp(etype, id, status) ==
    [request_type |-> "update", entity_type |-> etype, entity_id |-> id,
     data |-> [sg_status_list |-> status]]

\* a create request for a Version record in place of a PublishedFile record
CreateVersionOp(data) ==
    [request_type |-> "create", entity_type |-> "Version", data |-> data]

CreateOp(data) ==
    [request_type |-> "create", entity_type |-> "PublishedFile", data |-> data]

\* a techfix iteration that queues no update of the task's techfix record
TechFixRecordUpdateNone(batch, t, status) == batch

\* publish.py 438-446, review.py 405-413: the update of the task's techfix
\* record (the record of task t has the id of t)
TechFixRecordUpdate(batch, t, status) ==
    Append(batch, UpdateOp("CustomEntity04", t.id, status))

\* get_published_file_data: the payload of a PublishedFile create
PublishData(t, file_type, path) ==
    [task |-> t.id, published_file_type |-> file_type, sg_absolute_path |-> path]

(***************************************************************************)
(* publish(): validation of one item (publish.py 171-312)                  *)
(***************************************************************************)
StatusOverride == ("tlapr" :> "pub" @@ "movapr" :> "pub")

\* an override that fills in only the statuses the configured map lacks
ActionStatusMapKeep(status_dict, action, is_techfix, qc_process) ==
    IF is_techfix \/ ~qc_process
    THEN DictUpdateKeep(status_dict[action], StatusOverride)
    ELSE status_dict[action]

\* an override merged for techfix tasks only
ActionStatusMapTechfixOnly(status_dict, action, is_techfix, qc_process) ==
    IF is_techfix
    THEN DictUpdate(status_dict[action], StatusOverride)
    ELSE status_dict[action]

\* 259-262: the action's status map, with the techfix / no-QC override merged
ActionStatusMap(status_dict, action, is_techfix, qc_process) ==
    IF is_techfix \/ ~qc_process
    THEN DictUpdate(status_dict[action], StatusOverride)
    ELSE status_dict[action]

SlotsTruthy(fc) == fc.kind = "dict" /\ fc.slots # <<>>

\* 297-308: the slot set of the next status, with the step's default
SelectFileConfigs(tfc, nxt, step) ==
    LET direct == IF PyTruthy(tfc) THEN DictGet(tfc.d, nxt, NoSlots)
                  ELSE SlotSet(<<>>)
    IN  IF PyTruthy(tfc) /\ ~SlotsTruthy(direct)
        THEN IF step \in {"Lighting"}
             THEN DictGet(tfc.d, "movcpt", NoSlots)
             ELSE DictGet(tfc.d, "cmpt", SlotSet(<<>>))
        ELSE direct

Outcome(kind, reason, role_called, nxt, slots) ==
    [kind |-> kind, reason |-> reason, role_called |-> role_called,
     next_status |-> nxt, slots |-> slots]

SkipItem(reason, role_called) == Outcome("skip", reason, role_called, None, <<>>)
RaiseItem(site, role_called) == Outcome("raise", site, role_called, None, <<>>)

\* 251-257: the empty-config check, skipped for client-QC steps
ConfigEmptyCheck(step, status_config, task_file_configs) ==
    /\ step \notin clientQcSteps
    /\ (~PyTruthy(status_config) \/ ~PyTruthy(task_file_configs))

\* an iteration without the status check of 263-271
StatusInvalidCheckAfterRole(step, current_status, status_map) == FALSE

\* 263-271: the status check, skipped for client-QC steps
StatusInvalidCheck(step, current_status, status_map) ==
    /\ step \notin clientQcSteps
    /\ current_status \notin DOMAIN status_map

\* an iteration that goes on whatever validate_role_assignments returned
RoleDeniedNever(role_ok) == FALSE

\* publish.py 279 / review.py 313: if not valid_role_assignments
RoleDenied(role_ok) == ~role_ok

\* 180-312 for task t: what the iteration does before the slot loop
PublishValidate(t, cfgs, action, entity_found, role_ok) ==
    LET is_techfix == EndsWithTechFix(t.name)
        config_task_name == ConfigTaskName(t.name, t.split)
        task_config == MatchingConfigs(cfgs, t.linkType, t.step, config_task_name)
    IN
    IF ~entity_found THEN SkipItem(R_ENTITY, FALSE)
    ELSE IF task_config = <<>> THEN SkipItem(R_NOCONFIG, FALSE)
    ELSE
    LET cfg == LastOf(task_config)
        rawS == cfg.statusConfig
        rawF == cfg.fileConfig
    IN
    IF (RawTruthy(rawS) /\ LiteralEvalRaises(rawS))
       \/ (RawTruthy(rawF) /\ LiteralEvalRaises(rawF))
    THEN RaiseItem(E_PARSE, FALSE)
    ELSE
    LET status_config == ParseOrNone(rawS)
        task_file_configs == ParseOrNone(rawF)
        qc_process == cfg.qcProcess
    IN
    IF ConfigEmptyCheck(t.step, status_config, task_file_configs)
    THEN SkipItem(R_EMPTY, FALSE)
    \* 259: status_config[action] on None (TypeError) or without the key (KeyError)
    ELSE IF status_config.kind = "none" \/ action \notin DOMAIN status_config.d
    THEN RaiseItem(E_ACTION, FALSE)
    ELSE
    LET status_map == ActionStatusMap(status_config.d, action, is_techfix, qc_process)
    IN
    IF StatusInvalidCheck(t.step, t.status, status_map)
    THEN SkipItem(R_STATUS, FALSE)
    ELSE IF RoleDenied(role_ok) THEN SkipItem(R_ROLE, TRUE)
    \* 296: status_config[current_status] (KeyError)
    ELSE IF t.status \notin DOMAIN status_map THEN RaiseItem(E_STATUS, TRUE)
    ELSE
    LET nxt == status_map[t.status]
        fc == SelectFileConfigs(task_file_configs, nxt, t.step)
    IN
    \* 312: for each in file_configs, on None (TypeError)
    IF fc.kind = "none" THEN RaiseItem(E_SLOTS, TRUE)
    ELSE Outcome("go", "", TRUE, nxt, fc.slots)

(***************************************************************************)
(* publish(): the run                                                      *)
(***************************************************************************)
\* 622-632: the except clause of the handler
\* an except clause that adds the synthetic row to the rows built so far
FatalKeepRows(site) ==
    /\ fatal' = site
    /\ report_list' = Append(report_list, Row(0, "NO", <<R_TRACEBACK>>))
    /\ pc' = "done"

Fatal(site) ==
    /\ fatal' = site
    /\ report_list' = << Row(0, "NO", <<R_TRACEBACK>>) >>
    /\ pc' = "done"

\* an early exit that goes to the next item without appending a row
ContinueWithoutRow(reason) ==
    /\ report_list' = report_list
    /\ idx' = idx + 1
    /\ pc' = "loop"
    /\ fatal' = fatal

\* report_list.append(report_dict); continue
Continue(reason) ==
    /\ report_list' = Append(report_list, Row(idx, "NO", reason))
    /\ idx' = idx + 1
    /\ pc' = "loop"
    /\ fatal' = fatal

\* the values the per-item locals hold outside an iteration
ResetLocals ==
    /\ task' = NoTask
    /\ version' = NoVersion
    /\ next_status' = None
    /\ file_configs' = <<>>
    /\ overall_status' = TRUE
    /\ overall_msg' = <<>>
    /\ source_exists' = <<>>

\* 171: for task in self.selected_tasks_data
PublishFetch ==
    /\ UNCHANGED outside_run
    /\ UNCHANGED config_writes
    /\ pc = "loop" /\ func = "publish" /\ idx <= n
    /\ \E t \in TaskInputs(idx) : task' = t
    /\ pc' = "validate"
    /\ role_checked' = FALSE
    /\ valid_role_assignments' = FALSE
    /\ tech_from_task_status' = None
    /\ from_task_wip' = 0
    /\ qc_task_status' = <<>>
    /\ UNCHANGED << func, n, current_user, idx, version, next_status,
                    file_configs, overall_status, overall_msg, report_list,
                    batch_data, publish_batch_data, store_calls, fatal, copy_log,
                    review_conds, source_exists >>

\* 173-312: the iteration, up to the slot loop
\* the records of self.task_config_data as the run has left them
Written(cfgs, writes) ==
    [k \in DOMAIN cfgs |->
        LET mine == SelectSeq(writes, LAMBDA w : w.index = k)
        IN  IF mine = <<>> THEN cfgs[k]
            ELSE [cfgs[k] EXCEPT !.statusConfig = mine[Len(mine)].statusConfig]]

\* an override that is merged into a dict cached in the record, whose text is
\* then the merged map's
OverrideWritesBack(k, cfg) ==
    IF cfg.statusConfig = S_A
    THEN << [index |-> k, statusConfig |-> S_A_MERGED] >>
    ELSE IF cfg.statusConfig = S_B
    THEN << [index |-> k, statusConfig |-> S_B_MERGED] >>
    ELSE <<>>

\* 239-262: status_config is the dict ast.literal_eval builds from the record's
\* text at each iteration, and update() changes that dict: record k is not
\* assigned to
OverrideWrites(k, cfg) == <<>>

\* 180-262 for task t: what the iteration assigns to the config records
ConfigWrites(t, cfgs, action, entity_found) ==
    LET matching == { k \in DOMAIN cfgs :
                        /\ cfgs[k].entityType = t.linkType
                        /\ cfgs[k].pathSheetName = t.step
                        /\ cfgs[k].taskName = ConfigTaskName(t.name, t.split) }
    IN  IF ~entity_found \/ matching = {} THEN <<>>
        ELSE
        LET k == CHOOSE i \in matching : \A j \in matching : j <= i
            cfg == cfgs[k]
        IN  IF \/ (RawTruthy(cfg.statusConfig) /\ LiteralEvalRaises(cfg.statusConfig))
               \/ (RawTruthy(cfg.fileConfig) /\ LiteralEvalRaises(cfg.fileConfig))
               \/ ConfigEmptyCheck(t.step, ParseOrNone(cfg.statusConfig),
                                   ParseOrNone(cfg.fileConfig))
               \/ ParseOrNone(cfg.statusConfig).kind = "none"
               \/ action \notin DOMAIN ParseOrNone(cfg.statusConfig).d
            THEN <<>>
            ELSE IF EndsWithTechFix(t.name) \/ ~cfg.qcProcess
            THEN OverrideWrites(k, cfg)
            ELSE <<>>

PublishBegin ==
    /\ UNCHANGED outside_run
    /\ pc = "validate" /\ func = "publish"
    /\ \E entity_found \in BOOLEAN, role_ok \in BOOLEAN :
        LET cfgs == Written(task_config_data, config_writes)
            o == PublishValidate(task, cfgs, ActionOf(func), entity_found, role_ok)
        IN  /\ config_writes' = config_writes
                                 \o ConfigWrites(task, cfgs, ActionOf(func),
                                                 entity_found)
            /\ role_checked' = o.role_called
            /\ valid_role_assignments' = (o.role_called /\ role_ok)
            /\ CASE o.kind = "skip" ->
                      /\ Continue(<<o.reason>>)
                      /\ ResetLocals
                 [] o.kind = "raise" ->
                      /\ Fatal(o.reason)
                      /\ ResetLocals
                      /\ UNCHANGED idx
                 [] OTHER ->
                      /\ next_status' = o.next_status
                      /\ file_configs' = o.slots
                      /\ overall_status' = TRUE
                      /\ overall_msg' = <<>>
                      /\ pc' = "slots"
                      /\ UNCHANGED << idx, task, version, report_list, fatal,
                                      source_exists >>
    /\ UNCHANGED << func, n, current_user, batch_data, publish_batch_data,
                    store_calls, copy_log, review_conds, techfix_seen >>

\* What one copy() and the payload built after it can come to
CopyResults == {"ok", "nodata", "fail"}

\* 381: overall_status = overall_status and copy_status
AndStatus(overall, copy_status) == overall /\ copy_status

\* 339-401 for the tags from position k on; acc is
\* [status: overall_status, msg: overall_msg, pub: publish_batch_data, log: copy_log]
RECURSIVE CopyTags(_, _, _, _, _)
CopyTags(k, slot, exists, res, acc) ==
    IF k > Len(publishTags) THEN acc
    ELSE LET each_tag == publishTags[k] IN
    IF slot[each_tag] = "" THEN CopyTags(k + 1, slot, exists, res, acc)
    ELSE
    LET destination == << task.id, slot.name, each_tag >>
        \* sg_file_operations.copy 177-181: a missing source fails the copy
        copy_status == exists /\ res[k] # "fail"
        msg == IF ~exists THEN M_NOSOURCE ELSE M_COPYERR
        publish_data == res[k] = "ok"
        entry == [item |-> task.id, slot |-> slot.name, tag |-> each_tag,
                  mandatory |-> slot.mandatory, exists |-> exists,
                  copy_status |-> copy_status,
                  built |-> copy_status /\ publish_data]
        acc1 == IF copy_status
                THEN IF publish_data
                     THEN [acc EXCEPT
                             !.status = AndStatus(acc.status, copy_status),
                             !.pub = Append(acc.pub,
                                 CreateOp(PublishData(task, slot.name, destination))),
                             !.log = Append(acc.log, entry)]
                     ELSE [acc EXCEPT
                             !.status = FALSE,
                             !.msg = acc.msg \o <<M_NOPUBLISH>>,
                             !.log = Append(acc.log, entry)]
                ELSE [acc EXCEPT
                             !.status = AndStatus(acc.status, copy_status),
                             !.msg = <<msg>> \o acc.msg,
                             !.log = Append(acc.log, entry)]
    IN  CopyTags(k + 1, slot, exists, res, acc1)

\* a slot loop that skips no slot on account of its source
SkipAbsentNever(exists, mandatory) == FALSE

\* 333-337: a slot whose source is absent is skipped unless it is mandatory
SkipAbsent(exists, mandatory) == ~exists /\ ~mandatory

\* The answers that matter to a slot: whether its source exists and, for each
\* tag it is copied to, what the copy comes to
SlotAnswers(slot) ==
    { e \in [exists : BOOLEAN, res : [DOMAIN publishTags -> CopyResults]] :
        \A k \in DOMAIN publishTags :
            (slot.workarea = "" \/ ~e.exists \/ slot[publishTags[k]] = "")
                => e.res[k] = "ok" }

\* 312-401: one iteration of the slot loop
PublishSlot ==
    /\ UNCHANGED outside_run
    /\ UNCHANGED config_writes
    /\ pc = "slots" /\ file_configs # <<>>
    /\ LET slot == Head(file_configs) IN
       \E e \in SlotAnswers(slot) :
          LET acc0 == [status |-> overall_status, msg |-> overall_msg,
                       pub |-> publish_batch_data, log |-> copy_log]
              acc == IF slot.workarea = "" \/ SkipAbsent(e.exists, slot.mandatory)
                     THEN acc0
                     ELSE CopyTags(1, slot, e.exists, e.res, acc0)
          IN  /\ overall_status' = acc.status
              /\ overall_msg' = acc.msg
              /\ publish_batch_data' = acc.pub
              /\ copy_log' = acc.log
              /\ source_exists' = IF slot.workarea = "" THEN <<>> ELSE << e.exists >>
    /\ file_configs' = Tail(file_configs)
    /\ UNCHANGED << func, n, current_user, pc, idx, task, version,
                    next_status, report_list, batch_data, store_calls, fatal,
                    role_checked, valid_role_assignments, review_conds,
                    techfix_seen >>

\* What the store answers to the queries of the cascade (publish.py 409-601)
TechEntries == {"none", "nofrom", "from"}   \* the task's TechFixRecord: absent,
                                            \* without source task, with one
FromStatuses == {"tfhl", "ip", "missing"}   \* status of the originating task
SiblingStatuses == {"none", "pub", "ip"}    \* the paired client-QC task

\* the originating task of the techfix tasks of the run: a task outside the selection
OriginTaskId == n + 1

Result(kind, reason, batch) == [kind |-> kind, reason |-> reason, batch |-> batch]

\* an asset cascade of the client-QC steps that looks at the processed task only
AssetCascadeIgnoringSibling(t, nxt, sibling) ==
    IF t.linkType \in {"Asset"} /\ t.step \in {"RigClientQC", "LgtClientQC"}
       /\ nxt \in {"pub"}
    THEN [kind |-> "ok", status |-> "rfp"]
    ELSE [kind |-> "ok", status |-> None]

\* a cascade of the Rig / LooknFeel / Texture steps that does not look at the
\* type of the tracked entity
AssetCascadeAnyEntity(t, nxt, sibling) ==
    IF t.step \in {"Rig"} THEN [kind |-> "ok", status |-> "rfa"]
    ELSE IF t.step \in {"LooknFeel", "Texture"} THEN [kind |-> "ok", status |-> "rflgt"]
    ELSE [kind |-> "ok", status |-> None]

\* 521-601: the tracked-entity cascade; "skip" when the sibling task is missing
AssetCascade(t, nxt, sibling) ==
    IF t.linkType \in {"Asset"}
    THEN IF t.step \in {"Rig"} THEN [kind |-> "ok", status |-> "rfa"]
         ELSE IF t.step \in {"LooknFeel", "Texture"} THEN [kind |-> "ok", status |-> "rflgt"]
         ELSE IF t.step \in {"RigClientQC"}
              THEN IF sibling = "none" THEN [kind |-> "skip", status |-> R_NOLGTQC]
                   ELSE IF nxt \in {"pub"} /\ sibling \in {"pub"}
                        THEN [kind |-> "ok", status |-> "rfp"]
                        ELSE [kind |-> "ok", status |-> None]
         ELSE IF t.step \in {"LgtClientQC"}
              THEN IF sibling = "none" THEN [kind |-> "skip", status |-> R_NORIGQC]
                   ELSE IF nxt \in {"pub"} /\ sibling \in {"pub"}
                        THEN [kind |-> "ok", status |-> "rfp"]
                        ELSE [kind |-> "ok", status |-> None]
         ELSE [kind |-> "ok", status |-> None]
    ELSE [kind |-> "ok", status |-> None]

\* a cascade that runs whatever the copies came to
CascadeGuardAlways(overall) == TRUE

\* 403: the cascade and the status update run only when overall_status holds
CascadeGuard(overall) == overall

\* an originating task advanced whatever other techfix records are pending
OriginDoneAnyPending(from_status, pending) == from_status \in {"tfhl"}

\* 471-519: the originating task is advanced when it is on techfix hold and no
\* other techfix record of it is pending
OriginDone(from_status, pending) == from_status \in {"tfhl"} /\ pending = 0

\* 403-617: the end of an iteration, after the slot loop
PublishCascade(t, nxt, overall, msg, batch, pub, origin, tech, from_status, pending, sibling) ==
    IF ~CascadeGuard(overall) THEN Result("skip", msg, batch)
    ELSE
    LET is_techfix == EndsWithTechFix(t.name) IN
    IF is_techfix /\ tech = "none" THEN Result("skip", <<R_NOTECH>>, batch)
    ELSE
    LET b1 == IF is_techfix
              THEN TechFixRecordUpdate(batch, t, nxt)
              ELSE batch
    IN
    IF is_techfix /\ tech = "nofrom" THEN Result("skip", <<R_NOFROM>>, b1)
    \* 467: tech_from_task_data[-1] on an empty result (IndexError)
    ELSE IF is_techfix /\ from_status = "missing" THEN Result("raise", E_FROMTASK, b1)
    ELSE
    LET b2 == IF is_techfix /\ OriginDone(from_status, pending)
              THEN Append(b1, UpdateOp("Task", origin, "thdn"))
              ELSE b1
        asset == AssetCascade(t, nxt, sibling)
    IN
    IF asset.kind = "skip" THEN Result("skip", <<asset.status>>, b2)
    ELSE
    LET b3 == IF asset.status # None
              THEN Append(b2, UpdateOp(t.linkType, t.id, asset.status))
              ELSE b2
    IN  Result("ok", <<R_PUBLISHED>>, Append(b3, UpdateOp("Task", t.id, nxt)) \o pub)

\* The answers that matter to an iteration: a query it does not issue has none
CascadeAnswers(t, overall) ==
    { a \in [tech : TechEntries, from_status : FromStatuses,
             pending : 0..MaxPending, sibling : SiblingStatuses] :
        /\ (overall /\ EndsWithTechFix(t.name))
              \/ (a.tech = "none" /\ a.from_status = "ip" /\ a.pending = 0)
        /\ (overall /\ t.step \in clientQcSteps) \/ a.sibling = "none" }

PublishFinish ==
    /\ UNCHANGED outside_run
    /\ UNCHANGED config_writes
    /\ pc = "slots" /\ file_configs = <<>>
    /\ \E a \in CascadeAnswers(task, overall_status) :
        LET r == PublishCascade(task, next_status, overall_status, overall_msg,
                                batch_data, publish_batch_data, OriginTaskId,
                                a.tech, a.from_status, a.pending, a.sibling)
            read == /\ CascadeGuard(overall_status) /\ EndsWithTechFix(task.name)
                    /\ a.tech = "from" /\ a.from_status # "missing"
        IN  /\ batch_data' = r.batch
            /\ tech_from_task_status' = IF read THEN a.from_status ELSE None
            /\ from_task_wip' = IF read THEN a.pending ELSE 0
            /\ qc_task_status' =
                  IF /\ CascadeGuard(overall_status)
                     /\ EndsWithTechFix(task.name) => read
                     /\ task.linkType \in {"Asset"}
                     /\ task.step \in {"RigClientQC", "LgtClientQC"}
                  THEN << a.sibling >> ELSE <<>>
            /\ IF r.kind = "raise"
               THEN Fatal(r.reason) /\ UNCHANGED idx
               ELSE /\ report_list' = Append(report_list,
                          Row(idx, IF r.kind = "ok" THEN "YES" ELSE "NO", r.reason))
                    /\ idx' = idx + 1
                    /\ pc' = "loop"
                    /\ fatal' = fatal
    /\ ResetLocals
    /\ UNCHANGED << func, n, current_user, publish_batch_data,
                    store_calls, role_checked, valid_role_assignments,
                    copy_log, review_conds >>

(***************************************************************************)
(* update_version(): one iteration (review.py 234-433)                     *)
(***************************************************************************)
\* The versions a selection can hold, each with its task (self.tasks.get);
\* the i-th selected version has id i and references task i
ReviewInputs(i) ==
    [id : {i}, linkType : {"Asset"}, step : {"Animation"},
     status : {"rev", "apr", "tlapr"},
     name : { <<"Main">>, <<"Main", "TechFix">>, <<"Dup">> }, split : {None},
     teamLead : Assignees, supervisor : Assignees]
    \cup
    [id : {i}, linkType : {"Asset", "Shot"}, step : {"Animation"}, status : {"rev"},
     name : { <<"Null">>, <<"Bad">>, <<"Empty">>, <<"NoAct">>, <<"Other">>, <<"Main", "A">> },
     split : SplitTypes, teamLead : {"me"}, supervisor : {"other"}]

VersionInputs(i) == [id : {i}, status : {"rev", "tlapr"}, task_found : BOOLEAN]

Roles == {"Lead", "Supervisor", "Artist"}

\* a lead condition that leaves the comparison of the user id with the task's
\* team lead out
LeadPathAnyUser(user_role, t) == user_role \in LeadRoles

\* 320-324 / 341-345: the lead path and the supervisor path
LeadPath(user_role, t) == user_role \in LeadRoles /\ t.teamLead = "me"
SupPath(user_role, t) == user_role \in SupRoles /\ t.supervisor = "me"

\* a supervisor branch that is a second "if", entered whatever the lead
\* condition came to
ElifSupPathAlways(user_role, t) == SupPath(user_role, t)

\* 341: the supervisor branch is the elif of the lead branch
ElifSupPath(user_role, t) == ~LeadPath(user_role, t) /\ SupPath(user_role, t)

\* 237-311: the iteration reaches the call of validate_role_assignments
ReachesRoleCheck(v, t, cfgs, action) ==
    /\ v.task_found
    /\ LET matching == MatchingConfigs(cfgs, t.linkType, t.step,
                                       ConfigTaskName(t.name, t.split))
       IN  /\ matching # <<>>
           /\ ~LiteralEvalRaises(LastOf(matching).statusConfig)
           /\ action \in DOMAIN LiteralValue(LastOf(matching).statusConfig)

\* 239-433 for version v of task t: "raise", "skip" with the reason, or "ok"
\* with the operations appended to batch_data
ReviewValidate(v, t, cfgs, action, user_role, batch, role_ok, tech_found) ==
    \* 242-243: self.tasks.get(ver_task_id) is None (TypeError)
    IF ~v.task_found THEN Result("raise", E_NOTASK, batch)
    ELSE
    LET is_techfix == EndsWithTechFix(t.name)
        config_task_name == ConfigTaskName(t.name, t.split)
        matching == MatchingConfigs(cfgs, t.linkType, t.step, config_task_name)
    IN
    IF matching = <<>> THEN Result("skip", <<R_NOCONFIG>>, batch)
    \* 285: ast.literal_eval of the raw field, whatever it is
    ELSE IF LiteralEvalRaises(LastOf(matching).statusConfig)
    THEN Result("raise", E_PARSE, batch)
    ELSE
    LET status_config == LiteralValue(LastOf(matching).statusConfig) IN
    IF DOMAIN status_config = {} THEN Result("skip", <<R_EMPTY_REVIEW>>, batch)
    \* 297: status_config[action] (KeyError)
    ELSE IF action \notin DOMAIN status_config THEN Result("raise", E_ACTION, batch)
    ELSE
    LET status_map == status_config[action] IN
    IF RoleDenied(role_ok) THEN Result("skip", <<R_ROLE>>, batch)
    ELSE IF LeadPath(user_role, t) /\ t.status \notin validLeadStatus
    THEN Result("skip", <<R_LEAD_TASK>>, batch)
    ELSE IF LeadPath(user_role, t) /\ v.status \notin validLeadVerStatus
    THEN Result("skip", <<R_LEAD_VER>>, batch)
    ELSE IF ElifSupPath(user_role, t) /\ t.status \notin validSupStatus
    THEN Result("skip", <<R_SUP_TASK>>, batch)
    ELSE IF ElifSupPath(user_role, t) /\ v.status \notin validSupVerStatus
    THEN Result("skip", <<R_SUP_VER>>, batch)
    ELSE IF ~LeadPath(user_role, t) /\ ~SupPath(user_role, t)
    THEN Result("skip", <<R_NOUSER>>, batch)
    ELSE
    LET data_to_update == DictGet(status_map, t.status, None) IN
    IF is_techfix /\ ~tech_found THEN Result("skip", <<R_NOTECH>>, batch)
    ELSE
    LET b1 == IF is_techfix
              THEN TechFixRecordUpdate(batch, t, data_to_update)
              ELSE batch
    IN  Result("ok", <<>>,
               b1 \o << UpdateOp("Task", t.id, data_to_update),
                        UpdateOp("Version", v.id, data_to_update) >>)

\* 234: for version_id, version in self.versions.items()
ReviewFetch ==
    /\ UNCHANGED outside_run
    /\ UNCHANGED config_writes
    /\ pc = "loop" /\ func = "update_version" /\ idx <= n
    /\ \E t \in ReviewInputs(idx), v \in VersionInputs(idx) :
          /\ version' = v
          /\ task' = IF v.task_found THEN t ELSE NoTask
    /\ pc' = "validate"
    /\ role_checked' = FALSE
    /\ valid_role_assignments' = FALSE
    /\ review_conds' = <<>>
    /\ UNCHANGED << func, n, current_user, idx, next_status,
                    file_configs, overall_status, overall_msg, report_list,
                    batch_data, publish_batch_data, store_calls, fatal, copy_log,
                    techfix_seen, source_exists >>

\* 237-433: the iteration
ReviewItem ==
    /\ UNCHANGED outside_run
    /\ UNCHANGED config_writes
    /\ pc = "validate" /\ func = "update_version"
    /\ \E role_ok \in BOOLEAN, tech_found \in BOOLEAN :
        LET r == ReviewValidate(version, task, task_config_data, ActionOf(func),
                                current_user, batch_data, role_ok, tech_found)
            reached == ReachesRoleCheck(version, task, task_config_data,
                                        ActionOf(func))
        IN  /\ batch_data' = r.batch
            /\ role_checked' = reached
            /\ valid_role_assignments' = (reached /\ role_ok)
            /\ review_conds' = IF reached /\ role_ok
                               THEN << LeadPath(current_user, task),
                                       SupPath(current_user, task) >>
                               ELSE <<>>
            /\ IF r.kind = "raise"
               THEN Fatal(r.reason) /\ UNCHANGED idx
               ELSE /\ report_list' = Append(report_list,
                          Row(idx, IF r.kind = "ok" THEN "YES" ELSE "NO", r.reason))
                    /\ idx' = idx + 1
                    /\ pc' = "loop"
                    /\ fatal' = fatal
    /\ ResetLocals
    /\ UNCHANGED << func, n, current_user, publish_batch_data, store_calls,
                    copy_log, techfix_seen >>

(***************************************************************************)
(* The destinations on disk (sg_file_operations.copy, 134-249)             *)
(***************************************************************************)
\* the destination of a logged copy, as CopyTags builds it
DestinationOf(entry) == << entry.item, entry.slot, entry.tag >>

\* a copy that, when it fails, takes back what the item had copied before
RECURSIVE DiskAfterRollback(_, _)
DiskAfterRollback(log, k) ==
    IF k = 0 THEN {}
    ELSE LET disk == DiskAfterRollback(log, k - 1) IN
         IF log[k].copy_status THEN disk \cup { DestinationOf(log[k]) }
         ELSE { d \in disk : d[1] # log[k].item }

\* The destinations of the run that are in place after the first k copies.
\* 178-181: a copy whose source is missing touches nothing; 200-217: a copy
\* onto an existing destination overwrites it, and when it fails after the
\* rmtree the destination is gone; 224-241: otherwise the destination is made.
RECURSIVE DiskAfter(_, _)
DiskAfter(log, k) ==
    IF k = 0 THEN {}
    ELSE LET disk == DiskAfter(log, k - 1) IN
         IF log[k].copy_status THEN disk \cup { DestinationOf(log[k]) }
         ELSE IF log[k].exists THEN disk \ { DestinationOf(log[k]) }
         ELSE disk

(***************************************************************************)
(* The flush (publish.py 619-620, review.py 435-437)                       *)
(***************************************************************************)
\* a flush that submits the list even when it is empty
FlushGuardAlways(batch) == TRUE

\* a handler that returns without sending its list
FlushGuardNever(batch) == FALSE

\* if batch_data: self.sg_obj.batch(batch_data)
FlushGuard(batch) == batch # <<>>

Flush ==
    /\ UNCHANGED outside_run
    /\ UNCHANGED config_writes
    /\ pc = "loop" /\ idx > n
    /\ IF FlushGuard(batch_data)
       THEN /\ store_calls' = Append(store_calls, [call |-> "batch", ops |-> batch_data])
            /\ \/ pc' = "done" /\ UNCHANGED << report_list, fatal >>
               \* batch() raises
               \/ Fatal(E_BATCH)
       ELSE /\ pc' = "done"
            /\ UNCHANGED << store_calls, report_list, fatal >>
    /\ UNCHANGED << func, n, current_user, idx, task, version, next_status,
                    file_configs, overall_status, overall_msg, batch_data,
                    publish_batch_data, role_checked, valid_role_assignments,
                    review_conds, copy_log, techfix_seen, source_exists >>

(***************************************************************************)
(* sg_file_operations.copy (134-249), the call as a function of the       *)
(* disk it finds                                                           *)
(***************************************************************************)
M_EXISTS == "Destination already exists. Overwrite is set to False."

\* permission modes, as the set of the owner's permission bits
Modes == { {"r"}, {"r", "w"} }
S_IWRITE == {"w"}

\* the value of the copy variable while no call is modelled
NoCopy ==
    [source |-> "missing", source_mode |-> {}, destination |-> "absent",
     destination_mode |-> {}, content |-> "none", overwrite |-> FALSE,
     suffix |-> FALSE, called |-> FALSE, chmods |-> <<>>,
     status |-> FALSE, msg |-> ""]

\* the calls: a missing source, a file or a directory; a destination that is
\* absent, a file or a directory holding earlier content
CopyCalls ==
    { [NoCopy EXCEPT !.source = src, !.source_mode = sm, !.destination = dst,
                     !.destination_mode = dm, !.content = ct,
                     !.overwrite = ow, !.suffix = sfx] :
        src \in {"missing", "file", "dir"}, sm \in Modes \cup {{}},
        dst \in {"absent", "file", "dir"}, dm \in Modes \cup {{}},
        ct \in {"none", "old"}, ow \in BOOLEAN, sfx \in BOOLEAN }

\* the calls whose arguments describe a disk that can exist
PossibleCopyCall(c) ==
    /\ (c.source = "missing") <=> (c.source_mode = {})
    /\ (c.destination = "absent") <=> (c.destination_mode = {})
    /\ (c.destination = "absent") <=> (c.content = "none")

\* the call returns (status, msg)
Returns(c, status, msg) == [c EXCEPT !.called = TRUE, !.status = status, !.msg = msg]

\* destination_path.chmod(mode)
Chmod(c, mode) == [c EXCEPT !.destination_mode = mode, !.chmods = Append(@, mode)]

\* 207: os.access(destination_path, os.W_OK)
Writable(c) == "w" \in c.destination_mode

\* 207-209: the local names bound by the access check
LocalsAfterAccessCheck(c) == IF Writable(c) THEN {} ELSE {"original_mode"}

\* 220: if "originalMode" in locals()
RestoreGuard(locals) == "originalMode" \in locals

\* shutil.copy2 / shutil.copy onto the destination: the content and the
\* permission bits of the source
CopyFunc(c) ==
    \* 226-230: a destination without suffix is made as a directory
    [c EXCEPT !.destination = IF c.destination = "absent"
                              THEN IF c.suffix THEN "file" ELSE "dir"
                              ELSE @,
              !.content = "new", !.destination_mode = c.source_mode]

\* shutil.rmtree(destination) (an existing one), shutil.copytree(source, destination)
CopyTree(c) ==
    [c EXCEPT !.destination = "dir", !.content = "new",
              !.destination_mode = c.source_mode]

\* an exception inside the copy, caught at 244
Fails(c, partial) ==
    Returns([c EXCEPT !.content = IF partial THEN "partial" ELSE @], FALSE, M_COPYERR)

\* 134-249: the call on the disk that c describes; copied tells whether the
\* copy itself (shutil) went through
CopyCall(c, copied) ==
    IF c.source = "missing"
    THEN Returns(c, FALSE, M_NOSOURCE)
    ELSE IF c.destination # "absent"
    THEN IF ~c.overwrite
         THEN Returns(c, FALSE, M_EXISTS)
         ELSE LET original_mode == c.destination_mode
                  locals == LocalsAfterAccessCheck(c)
                  c1 == IF ~Writable(c)
                        THEN Chmod(c, original_mode \cup S_IWRITE)
                        ELSE c
              IN  IF ~copied THEN Fails(c1, TRUE)
                  ELSE LET c2 == IF c.source = "file" THEN CopyFunc(c1)
                                 ELSE CopyTree(c1)
                           c3 == IF RestoreGuard(locals)
                                 THEN Chmod(c2, original_mode)
                                 ELSE c2
                       IN  Returns(c3, TRUE, "")
    ELSE IF ~copied THEN Fails(c, FALSE)
         ELSE Returns(IF c.source = "file" THEN CopyFunc(c) ELSE CopyTree(c),
                      TRUE, "")

(***************************************************************************)
(* Submission dialog (submission.py): the dialog is shown for one task,    *)
(* the user attaches files slot by slot and presses Submit or Clear        *)
(***************************************************************************)
\* QtWidgets.QMessageBox.<kind>(parent, title, text)
Box(kind, title, text) == [kind |-> kind, title |-> title, text |-> text]

B_MISSING == "Missing Files"
B_UNREAL == "Please convert to unreal 5.6 version and submit."
B_NOMAIN == "Main Task of selected Techfix task is not Found in SG"
B_SUBMITTED == "Files/Folder is succesfully submitted"
B_NOVERSION == "create_version message"
B_SELECTION == "open_dialog error"
M_UNHANDLED == "Unhandled file type, Please check with ShotGrid Team"

\* the statements of submit_files() that raise into its except clause
E_DLG_SLOTS == "for each in self.file_configs"
E_ENTITY_SLOT == "self.entity_data.get(slot)[name]"

\* the slot sets a dialog can have been built with (__init__ 237-253)
DialogFileConfigs ==
    { SlotSet(<<MayaSlot, FramesSlot, MovSlot>>),
      SlotSet(<<MayaSlot, NotesSlot>>),
      SlotSet(<<PlayblastSlot, MayaSlot>>),
      NoSlots }

\* the slot number of the entity's slot name, as the text after the last "-"
SlotNumbers == {None, "217", "218"}
IsDigit(text) == text \in {"217", "218"}
IntOf(text) == IF text = "217" THEN 217 ELSE 218

\* the value of the dialog variable while no dialog exists
NoDialog ==
    [file_configs |-> NoSlots, files_dict |-> {}, source_files |-> {},
     is_techfix |-> FALSE,
     pipeline_step |-> None, unreal_version |-> None, slot_no |-> None,
     next_status |-> None, selected_task_id |-> 0,
     submit_enabled |-> FALSE, clear_enabled |-> FALSE, visible |-> FALSE,
     handler |-> None, boxes |-> <<>>, copies |-> <<>>, updates |-> <<>>,
     config_query |-> <<>>, task_config_data |-> None,
     internal_version |-> <<>>]

\* 161-170: what the store returns for the dialog's config query, the filter
\* on entity type, pipeline step and task name being applied by the store
DialogConfigQuery(step, tname) ==
    MatchingConfigs(ConfigsOfStep(step), "Asset", step, tname)

\* the internal version of the selected task as __init__ read it (105-113):
\* <<>> for null, or <<the number>>
InternalVersions == { <<>>, <<0>>, <<2>> }

\* 69-262: the dialogs that __init__ shows; config_query is the store's answer
\* to the config query (a dialog is shown only when it is not empty, 173-179)
\* and task_config_data the record taken from it (181)
ShownDialogs ==
    { [NoDialog EXCEPT !.file_configs = fc, !.is_techfix = tf,
                       !.pipeline_step = step, !.unreal_version = uv,
                       !.slot_no = sn, !.next_status = "rev",
                       !.selected_task_id = 1,
                       !.submit_enabled = TRUE, !.clear_enabled = TRUE,
                       !.visible = TRUE,
                       !.config_query = DialogConfigQuery(step, tname),
                       !.task_config_data =
                            LastOf(DialogConfigQuery(step, tname)),
                       !.internal_version = iv] :
        fc \in DialogFileConfigs, tf \in BOOLEAN,
        step \in {"Animation", "Texture"}, uv \in {None, "Unreal 5.6"},
        sn \in SlotNumbers, tname \in { <<"Main">>, <<"Dup">> },
        iv \in InternalVersions }

\* a store mutation issued directly (self.sg_obj.update / create_version)
SgUpdate(etype, id, field, value) ==
    [request_type |-> "update", entity_type |-> etype, entity_id |-> id,
     data |-> [field |-> field, value |-> value]]
SgCreateVersion(id) ==
    [request_type |-> "create", entity_type |-> "Version", entity_id |-> id,
     data |-> [field |-> "task", value |-> id]]

\* 866-874: the update of the selected task, its two fields in one call
SgUpdateTask(id, internal_version, status) ==
    [request_type |-> "update", entity_type |-> "Task", entity_id |-> id,
     data |-> [field |-> "status", value |-> status,
               internalVersion |-> internal_version]]

\* 904-909: the update of each of the first k fresh tasks (the tasks after the
\* main task in the numbering of the model)
RECURSIVE WritesFresh(_, _, _)
WritesFresh(d, k, internal_version) ==
    IF k = 0 THEN d
    ELSE [WritesFresh(d, k - 1, internal_version) EXCEPT
            !.updates = Append(@, SgUpdate("Task", d.selected_task_id + 1 + k,
                                           "internalVersion", internal_version))]

\* an internal version that leaves a null previous value at 0
NextInternalVersionNullStays(previous) ==
    IF previous = <<>> THEN 0 ELSE previous[1] + 1

\* 866-870: (selected_task_data[internalVersion] or 0) + 1
NextInternalVersion(previous) ==
    (IF previous = <<>> THEN 0 ELSE previous[1]) + 1

\* a task update issued whatever create_version returned
VersionGuardAlways(version_status) == TRUE

\* 865: if version_status
VersionGuard(version_status) == version_status

Shows(d, box) == [d EXCEPT !.boxes = Append(@, box)]
Writes(d, op) == [d EXCEPT !.updates = Append(@, op)]

\* 596-597: the buttons are disabled while the handler runs
DisableButtons(d) ==
    [d EXCEPT !.submit_enabled = FALSE, !.clear_enabled = FALSE]

\* the dialog as a handler finds it: nothing shown yet by this call
Enter(d, handler) == [d EXCEPT !.handler = handler, !.boxes = <<>>]

\* a missing-files exit that leaves the buttons as they are
LeaveButtons(d) == d

\* 661-662: self.submit.setEnabled(True); self.clear.setEnabled(True)
EnableButtons(d) == [d EXCEPT !.submit_enabled = TRUE, !.clear_enabled = TRUE]

\* 938: self.close()
Close(d) == [d EXCEPT !.visible = FALSE]

\* 934-938: the except clause, then the close
Raise(d, site) == Close(Shows(d, Box("critical", "Error", site)))

\* what is found at the destination of a slot's earlier submission
Destinations == {"absent", "dir_empty", "dir_files", "file"}

\* 640-652: an unattached optional slot is listed when its destination exists,
\* unless it is a directory without files of the slot's extension
PreviouslySubmitted(each, destination) ==
    /\ destination # "absent"
    /\ IF destination \in {"dir_empty", "dir_files"} /\ each.type \in {"File", "Files"}
       THEN destination = "dir_files"
       ELSE TRUE

\* 599-653: missing_files, for the slots from position k on
RECURSIVE MissingFiles(_, _, _, _)
MissingFiles(k, slots, files, prev) ==
    IF k > Len(slots) THEN <<>>
    ELSE LET each == slots[k]
             attached == each.name \in files
             missing == IF each.mandatory
                        THEN ~attached
                        ELSE /\ ~attached
                             /\ each.workarea # ""
                             /\ PreviouslySubmitted(each, prev[k])
         IN  (IF missing THEN << each.name >> ELSE <<>>)
                \o MissingFiles(k + 1, slots, files, prev)

\* the destinations looked at by the check: those of the unattached optional
\* slots with a work area
DestinationAnswers(slots, files) ==
    { prev \in [DOMAIN slots -> Destinations] :
        \A k \in DOMAIN slots :
            (slots[k].mandatory \/ slots[k].name \in files \/ slots[k].workarea = "")
                => prev[k] = "absent" }

\* .get("copyConfig") of a slot config
CopyConfigOf(each) ==
    IF "copyConfig" \in DOMAIN each THEN each.copyConfig ELSE None

\* the copy results that matter: a slot that is not copied has none
SubmitCopyAnswers(slots, files) ==
    { res \in [DOMAIN slots -> BOOLEAN] :
        \A k \in DOMAIN slots :
            (slots[k].workarea = "" \/ slots[k].name \notin files
               \/ slots[k].type \notin {"File", "Files", "Folder"}
               \/ (slots[k].type = "Files" /\ CopyConfigOf(slots[k]) = None))
                  => res[k] }

\* len(self.files_dict[name]) for a slot of type Files
SourceFiles(d, name) == (CHOOSE p \in d.source_files : p[1] = name)[2]

\* what the per-file copies of a Files slot meet: the destination built for the
\* slot (absent, or a directory left by an earlier submission), whether its
\* last component has a suffix, and whether each file's copy goes through
FilesAnswers(attached) ==
    IF attached
    THEN [destination : {"absent", "dir"}, suffix : BOOLEAN,
          copied : [1..MaxFiles -> BOOLEAN]]
    ELSE { [destination |-> "absent", suffix |-> FALSE,
            copied |-> [file \in 1..MaxFiles |-> TRUE]] }

\* 768-770: copy(file, destination, logger, buffer=..) for an attached file;
\* the overwrite argument is left at its default
FilesCopyCall(io) ==
    [NoCopy EXCEPT !.source = "file", !.source_mode = {"r", "w"},
                   !.destination = io.destination,
                   !.destination_mode = IF io.destination = "absent" THEN {}
                                        ELSE {"r", "w"},
                   !.content = IF io.destination = "absent" THEN "none" ELSE "old",
                   !.suffix = io.suffix]

\* the next call on the disk the call c left
NextCopyCall(c) == [c EXCEPT !.called = FALSE, !.status = FALSE, !.msg = ""]

\* 767-775: for file in source_files, from the file at position file of total
\* on; c is the call about to be made
RECURSIVE FilesLoop(_, _, _, _, _, _)
FilesLoop(file, total, c, io, each, acc) ==
    IF file > total THEN acc
    ELSE LET r == CopyCall(c, io.copied[file])
             acc1 == [status |-> AndStatus(acc.status, r.status),
                      msg |-> (IF r.msg = "" THEN <<>> ELSE <<r.msg>>) \o acc.msg,
                      copies |-> Append(acc.copies,
                          [slot |-> each.name, copy_status |-> r.status,
                           msg |-> r.msg])]
         IN  FilesLoop(file + 1, total, NextCopyCall(r), io, each, acc1)

\* 699-815 for the slots from position k on; acc is
\* [status: overall_status, msg: overall_msg, copies: the copies made]
RECURSIVE CopyFiles(_, _, _, _, _, _)
CopyFiles(k, slots, d, res, io, acc) ==
    IF k > Len(slots) THEN acc
    ELSE LET each == slots[k]
             acc1 == IF each.workarea # "" /\ each.name \in d.files_dict
                     THEN IF each.type = "Files" /\ CopyConfigOf(each) = None
                          THEN FilesLoop(1, SourceFiles(d, each.name),
                                         FilesCopyCall(io), io, each, acc)
                          ELSE IF each.type \in {"File", "Files", "Folder"}
                          THEN [status |-> AndStatus(acc.status, res[k]),
                                msg |-> (IF res[k] THEN <<>> ELSE <<M_COPYERR>>) \o acc.msg,
                                copies |-> Append(acc.copies,
                                    [slot |-> each.name, copy_status |-> res[k],
                                     msg |-> IF res[k] THEN "" ELSE M_COPYERR])]
                          ELSE [acc EXCEPT !.status = FALSE, !.msg = <<M_UNHANDLED>>]
                     ELSE acc
         IN  CopyFiles(k + 1, slots, d, res, io, acc1)

\* a slot of type Files without copyConfig is attached
FilesAttached(slots, files) ==
    \E k \in DOMAIN slots :
        /\ slots[k].type = "Files" /\ CopyConfigOf(slots[k]) = None
        /\ slots[k].workarea # "" /\ slots[k].name \in files

\* 837-929: create_version and what follows; has_main tells whether the
\* TechFixRecord names a main task
CreateVersionAndUpdate(d, has_main) ==
    \E version_status \in BOOLEAN :
        LET dv == IF version_status
                  THEN Writes(d, SgCreateVersion(d.selected_task_id))
                  ELSE d
        IN
        IF ~VersionGuard(version_status)
        THEN self' = Close(Shows(dv, Box("critical", "Error", B_NOVERSION)))
        ELSE
        LET internal_version == NextInternalVersion(d.internal_version)
            d1 == Writes(dv, SgUpdateTask(d.selected_task_id, internal_version,
                                          d.next_status))
        IN  IF ~d.is_techfix
            THEN self' = Close(Shows(d1, Box("information", "Success", B_SUBMITTED)))
            ELSE \E fresh_tasks \in 0..MaxFresh :
                 LET d2 == WritesFresh(d1, fresh_tasks, internal_version)
                     d3 == IF has_main
                           THEN Writes(d2, SgUpdate("Task", d.selected_task_id + 1,
                                                    "internalVersion",
                                                    internal_version))
                           ELSE Shows(d2, Box("critical", "Error", B_NOMAIN))
                 IN  self' = Close(Shows(d3, Box("information", "Success", B_SUBMITTED)))

\* 692-932: the copies, then the techfix record, the version and the task
CopyAndUpdate(d, slots) ==
    \E res \in SubmitCopyAnswers(slots, d.files_dict) :
    \E io \in FilesAnswers(FilesAttached(slots, d.files_dict)) :
        LET acc == CopyFiles(1, slots, d, res, io,
                             [status |-> TRUE, msg |-> <<>>, copies |-> d.copies])
            d1 == [d EXCEPT !.copies = acc.copies]
        \* 817, 931-932: if overall_status: ... else: the error box
        IN  IF ~acc.status
            THEN self' = Close(Shows(d1, Box("critical", "Error", acc.msg)))
            ELSE IF d.is_techfix
            THEN \E tech \in {"none", "nomain", "main"} :
                    IF tech = "none"
                    \* 842-848: return, with the dialog left as it is
                    THEN self' = Shows(d1, Box("critical", "Error", R_NOTECH))
                    ELSE CreateVersionAndUpdate(
                            Writes(d1, SgUpdate("CustomEntity04", d.selected_task_id,
                                                "status", d.next_status)),
                            tech = "main")
            ELSE CreateVersionAndUpdate(d1, FALSE)

\* 665-690: the Unreal version question for LooknFeel / Texture assets
UnrealCheck(d, slots) ==
    IF d.pipeline_step \in {"LooknFeel", "Texture"} /\ d.unreal_version = None
    THEN IF d.slot_no = None THEN self' = Raise(d, E_ENTITY_SLOT)
         ELSE IF IsDigit(d.slot_no) /\ IntOf(d.slot_no) >= 218
         THEN \E response \in {"Yes", "No"} :
                 IF response = "Yes"
                 THEN CopyAndUpdate(Writes(d, SgUpdate("Asset", d.selected_task_id,
                                                       "unrealVersion", "Unreal 5.6")),
                                    slots)
                 ELSE self' = Shows(d, Box("warning", "Unreal Version Error", B_UNREAL))
         ELSE CopyAndUpdate(d, slots)
    ELSE CopyAndUpdate(d, slots)

\* 584-938: the Submit button
SubmitFiles ==
    /\ self.visible /\ self.submit_enabled
    /\ LET d == DisableButtons(Enter(self, "submit_files")) IN
       IF self.file_configs.kind = "none"
       THEN self' = Raise(d, E_DLG_SLOTS)
       ELSE LET slots == self.file_configs.slots IN
            \E prev \in DestinationAnswers(slots, self.files_dict) :
               LET missing_files == MissingFiles(1, slots, self.files_dict, prev) IN
               IF missing_files # <<>>
               THEN self' = EnableButtons(
                                Shows(d, Box("warning", B_MISSING, missing_files)))
               ELSE UnrealCheck(d, slots)
    /\ UNCHANGED outside_dialog

\* 282-407: a Browse button; the user picks a valid path, cancels, or picks
\* something the checks reject
OpenDialog ==
    /\ self.visible /\ self.file_configs.kind = "dict"
    /\ \E k \in DOMAIN self.file_configs.slots :
       \E picked \in {"valid", "cancelled", "rejected"} :
       \E file_paths \in 1..MaxFiles :
          LET each == self.file_configs.slots[k]
              d == Enter(self, "open_dialog")
              error == Shows(d, Box("critical", "Error", B_SELECTION))
          IN  self' =
                IF each.type \notin {"File", "Files", "Folder"} THEN error
                ELSE IF picked = "valid"
                     THEN [d EXCEPT !.files_dict = @ \cup {each.name},
                                    !.source_files =
                                        IF each.type = "Files"
                                        THEN { p \in @ : p[1] # each.name }
                                                \cup { <<each.name, file_paths>> }
                                        ELSE @]
                ELSE IF picked = "cancelled" /\ each.type \in {"File", "Folder"}
                     THEN d
                ELSE error
    /\ UNCHANGED outside_dialog

\* 468-478: the Clear button
ClearFiles ==
    /\ self.visible /\ self.clear_enabled
    /\ self' = [Enter(self, "clear_files") EXCEPT !.files_dict = {},
                                                  !.source_files = {}]
    /\ UNCHANGED outside_dialog

(***************************************************************************)
(* sg_file_operations.copy (134-249), one call on its own                  *)
(***************************************************************************)
\* one call of copy()
Copy ==
    /\ ~fs.called /\ fs # NoCopy
    /\ \E copied \in BOOLEAN : fs' = CopyCall(fs, copied)
    /\ UNCHANGED << run_vars, self, world >>

(***************************************************************************)
(* Several runs on one record store                                        *)
(***************************************************************************)
\* The handlers of two users are separate processes on one store. A handler
\* object reads the selected records when it is constructed (publish.py 101,
\* review.py 138), answers the cascade's queries from the store while it
\* iterates, and sends its batch at the end.

\* the value of the store variable while no shared store is modelled
NoWorld == [first |-> <<>>, store |-> <<>>, runs |-> <<>>, flushed |-> <<>>]

\* the statuses the techfix filter of publish.py 489-493 leaves out
doneTechfixStatus == {"pub", "omt", "reject"}

\* the tasks of the shared store: 1 an ordinary task; 2 and 3 techfix tasks of
\* the originating task 4; 5 and 6 the paired client-QC tasks of one asset
SelectedTask(id, status) ==
    [id |-> id, linkType |-> "Asset",
     step |-> IF id = 5 THEN "RigClientQC" ELSE IF id = 6 THEN "LgtClientQC"
              ELSE "Animation",
     status |-> status,
     name |-> IF id \in {2, 3} THEN <<"Main", "TechFix">>
              ELSE IF id \in {5, 6} THEN <<"NoQC">> ELSE <<"Main">>,
     split |-> None, teamLead |-> "me", supervisor |-> "me"]

\* 410-436, 447: the TechFixRecord query of publish() answered by the store
\* (a record without source task has from = 0)
TechEntryOf(store, id) ==
    IF id \notin DOMAIN store.tech THEN "none"
    ELSE IF store.tech[id].from = 0 THEN "nofrom" ELSE "from"

\* 460-469: the status of the originating task
FromStatusOf(store, id) ==
    IF TechEntryOf(store, id) # "from" THEN "ip"
    ELSE IF store.tech[id].from \in DOMAIN store.tasks
         THEN store.tasks[store.tech[id].from]
         ELSE "missing"

\* 472-505: the other techfix records of the originating task that are pending
PendingOf(store, id) ==
    IF TechEntryOf(store, id) # "from" THEN 0
    ELSE Cardinality({ r \in DOMAIN store.tech \ {id} :
                          /\ store.tech[r].from = store.tech[id].from
                          /\ store.tech[r].status \notin doneTechfixStatus })

\* 528-601: the status of the paired client-QC task of the same asset
SiblingOf(store, id) ==
    LET paired == IF id = 5 THEN 6 ELSE 5 IN
    IF id \in {5, 6} /\ paired \in DOMAIN store.tasks
    THEN store.tasks[paired] ELSE "none"

\* sg.batch(): one request applied to the store
ApplyOp(store, op) ==
    IF op.request_type # "update" THEN store
    ELSE IF op.entity_type = "Task"
    THEN [store EXCEPT !.tasks[op.entity_id] = op.data.sg_status_list]
    ELSE IF op.entity_type = "Version"
    THEN [store EXCEPT !.versions[op.entity_id] = op.data.sg_status_list]
    ELSE IF op.entity_type = "CustomEntity04"
    THEN [store EXCEPT !.tech[op.entity_id].status = op.data.sg_status_list]
    ELSE [store EXCEPT !.asset = op.data.sg_status_list]

RECURSIVE ApplyBatch(_, _)
ApplyBatch(store, ops) ==
    IF ops = <<>> THEN store
    ELSE ApplyBatch(ApplyOp(store, Head(ops)), Tail(ops))

\* a batch that is applied only while every status the run read is current
BatchAppliedIfCurrent(store, run) ==
    IF \A id \in DOMAIN run.read : store.tasks[id] = run.read[id]
    THEN ApplyBatch(store, run.batch)
    ELSE store

\* publish.py 619-620, review.py 436-437: self.sg_obj.batch(batch_data); the
\* requests carry the record id and the new value only
BatchApplied(store, run) == ApplyBatch(store, run.batch)

\* version["sg_task"]["id"]: versions 7 and 8 are two versions of task 1, any
\* other version is the version of the task with its number
TaskOfVersion(id) == IF id \in {7, 8} THEN 1 ELSE id

\* the task a selected item of a run is about
TaskOfItem(run, id) == IF run.func = "publish" THEN id ELSE TaskOfVersion(id)

\* a status that follows the requests the run has queued so far
RECURSIVE StatusSeenAfterBatch(_, _)
StatusSeenAfterBatch(run, id) ==
    IF run.batch = <<>> THEN run.read[id]
    ELSE LET op == run.batch[Len(run.batch)]
             before == [run EXCEPT !.batch = SubSeq(@, 1, Len(@) - 1)]
         IN  IF op.entity_type = "Task" /\ op.entity_id = id
             THEN op.data.sg_status_list
             ELSE StatusSeenAfterBatch(before, id)

\* review.py 242-244: task = self.tasks.get(ver_task_id), the record read by
\* __init__, and its status
StatusSeen(run, id) == run.read[id]

NewRun(f, role, sel) ==
    [func |-> f, user_role |-> role, sel |-> sel, read |-> <<>>, vread |-> <<>>,
     read_after |-> 0, pc |-> "new", idx |-> 1, batch |-> <<>>, rows |-> <<>>]

\* __init__: the selected tasks (and versions) are read with their status;
\* read_after records how many batches the store had applied by then
RunInit(r) ==
    /\ r \in DOMAIN world.runs
    /\ world.runs[r].pc = "new"
    /\ LET run == world.runs[r]
           ids == { run.sel[i] : i \in DOMAIN run.sel }
           task_ids == { TaskOfItem(run, id) : id \in ids }
       IN  world' = [world EXCEPT !.runs[r] =
                        [run EXCEPT !.pc = "loop",
                                    !.read_after = Len(world.flushed),
                                    !.read = [id \in task_ids |->
                                                 world.store.tasks[id]],
                                    !.vread = IF run.func = "publish" THEN <<>>
                                              ELSE [id \in ids |->
                                                       world.store.versions[id]]]]
    /\ UNCHANGED << run_vars, self, fs >>

\* the iteration of publish() on a selected task, its copies succeeding or not
\* (the PublishedFile creates, which change no status, are left out)
PublishItem(store, run, copied) ==
    LET id == run.sel[run.idx]
        t == SelectedTask(id, run.read[id])
        o == PublishValidate(t, task_config_data, ActionOf(run.func), TRUE, TRUE)
    IN  IF o.kind = "raise" THEN Result("raise", o.reason, run.batch)
        ELSE IF o.kind = "skip" THEN Result("skip", <<o.reason>>, run.batch)
        ELSE PublishCascade(t, o.next_status, copied, <<M_COPYERR>>, run.batch,
                            <<>>,
                            IF TechEntryOf(store, id) = "from"
                            THEN store.tech[id].from ELSE 0,
                            TechEntryOf(store, id), FromStatusOf(store, id),
                            PendingOf(store, id), SiblingOf(store, id))

\* the iteration of update_version() on a selected version
ReviewedItem(store, run) ==
    LET id == run.sel[run.idx]
        ver_task_id == TaskOfVersion(id)
        t == SelectedTask(ver_task_id, StatusSeen(run, ver_task_id))
        v == [id |-> id, status |-> run.vread[id], task_found |-> TRUE]
    IN  ReviewValidate(v, t, task_config_data, ActionOf(run.func), run.user_role,
                       run.batch, TRUE, ver_task_id \in DOMAIN store.tech)

\* one iteration of a run's loop
RunItem(r) ==
    /\ r \in DOMAIN world.runs
    /\ world.runs[r].pc = "loop"
    /\ world.runs[r].idx <= Len(world.runs[r].sel)
    /\ LET run == world.runs[r] IN
       \E copied \in BOOLEAN :
          LET res == IF run.func = "publish"
                     THEN PublishItem(world.store, run, copied)
                     ELSE ReviewedItem(world.store, run)
          IN  /\ run.func = "update_version" => copied
              /\ world' = [world EXCEPT !.runs[r] =
                    IF res.kind = "raise"
                    THEN [run EXCEPT !.pc = "failed",
                                     !.rows = << Row(0, "NO", <<R_TRACEBACK>>) >>]
                    ELSE [run EXCEPT
                            !.idx = run.idx + 1,
                            !.batch = res.batch,
                            !.rows = Append(run.rows,
                                        Row(run.idx,
                                            IF res.kind = "ok" THEN "YES" ELSE "NO",
                                            res.reason))]]
    /\ UNCHANGED << run_vars, self, fs >>

\* publish.py 619-620, review.py 436-437: the batch is sent after the loop
RunBatch(r) ==
    /\ r \in DOMAIN world.runs
    /\ world.runs[r].pc = "loop"
    /\ world.runs[r].idx > Len(world.runs[r].sel)
    /\ world' = [world EXCEPT
                    !.store = IF world.runs[r].batch # <<>>
                              THEN BatchApplied(world.store, world.runs[r])
                              ELSE world.store,
                    !.flushed = Append(world.flushed, r),
                    !.runs[r].pc = "flushed"]
    /\ UNCHANGED << run_vars, self, fs >>

\* two runs of two users on the same task
RaceWorlds ==
    { [first |-> st, store |-> st, flushed |-> <<>>,
       runs |-> << NewRun(a[1], a[2], <<1>>), NewRun(b[1], b[2], <<1>>) >>] :
        st \in [tasks : [{1} -> {"rev", "tlapr", "apr"}],
                versions : [{1} -> {"rev", "tlapr"}],
                tech : {<<>>}, asset : {"ip"}],
        a \in { <<"publish", None>>, <<"update_version", "Lead">>,
                <<"update_version", "Supervisor">> },
        b \in { <<"publish", None>>, <<"update_version", "Lead">>,
                <<"update_version", "Supervisor">> } }

\* one publish() run on the techfix tasks of one originating task
TechfixWorlds ==
    { [first |-> st, store |-> st, flushed |-> <<>>,
       runs |-> << NewRun("publish", None, sel) >>] :
        st \in { [tasks |-> (2 :> a @@ 3 :> b @@ 4 :> o), versions |-> <<>>,
                  tech |-> (2 :> [from |-> 4, status |-> "ip"]
                            @@ 3 :> [from |-> 4, status |-> p]),
                  asset |-> "ip"] :
                 a \in {"tlapr", "apr"}, b \in {"tlapr", "apr"},
                 o \in {"tfhl", "ip"}, p \in {"ip", "pub"} },
        sel \in { <<2>>, <<2, 3>>, <<3, 2>> } }

\* one publish() run on the client-QC tasks of one asset
ClientQcWorlds ==
    { [first |-> st, store |-> st, flushed |-> <<>>,
       runs |-> << NewRun("publish", None, sel) >>] :
        st \in { [tasks |-> (5 :> a @@ 6 :> b), versions |-> <<>>,
                  tech |-> <<>>, asset |-> "ip"] :
                 a \in {"tlapr", "pub"}, b \in {"tlapr", "pub"} },
        sel \in { <<5>>, <<5, 6>>, <<6, 5>> } }

\* one update_version() run on two versions of one task
SharedTaskWorlds ==
    { [first |-> st, store |-> st, flushed |-> <<>>,
       runs |-> << NewRun("update_version", role, sel) >>] :
        st \in [tasks : [{1} -> {"rev", "tlapr", "apr"}],
                versions : [{7, 8} -> {"rev", "tlapr"}],
                tech : {<<>>}, asset : {"ip"}],
        role \in {"Lead", "Supervisor"},
        sel \in { <<7>>, <<7, 8>>, <<8, 7>> } }

(***************************************************************************)
(* Specification                                                           *)
(***************************************************************************)
Init ==
    /\ func \in {"publish", "update_version"}
    /\ n \in 1..MaxItems
    \* the acting user's role is read by update_version() only
    /\ current_user \in IF func = "publish" THEN {None} ELSE Roles
    /\ pc = "loop"
    /\ idx = 1
    /\ task = NoTask
    /\ version = NoVersion
    /\ next_status = None
    /\ file_configs = <<>>
    /\ overall_status = TRUE
    /\ overall_msg = <<>>
    /\ report_list = <<>>
    /\ batch_data = <<>>
    /\ publish_batch_data = <<>>
    /\ store_calls = <<>>
    /\ fatal = None
    /\ role_checked = FALSE
    /\ valid_role_assignments = FALSE
    /\ review_conds = <<>>
    /\ copy_log = <<>>
    /\ tech_from_task_status = None
    /\ from_task_wip = 0
    /\ qc_task_status = <<>>
    /\ source_exists = <<>>
    /\ config_writes = <<>>
    /\ self = NoDialog
    /\ fs = NoCopy
    /\ world = NoWorld

Next ==
    \/ PublishFetch
    \/ PublishBegin
    \/ PublishSlot
    \/ PublishFinish
    \/ ReviewFetch
    \/ ReviewItem
    \/ Flush

Spec == Init /\ [][Next]_vars

\* the run variables while no run of publish() / update_version() is modelled
NoRun(handler) ==
    /\ func = handler
    /\ n = 1
    /\ current_user = None
    /\ pc = "done"
    /\ idx = 1
    /\ task = NoTask
    /\ version = NoVersion
    /\ next_status = None
    /\ file_configs = <<>>
    /\ overall_status = TRUE
    /\ overall_msg = <<>>
    /\ report_list = <<>>
    /\ batch_data = <<>>
    /\ publish_batch_data = <<>>
    /\ store_calls = <<>>
    /\ fatal = None
    /\ role_checked = FALSE
    /\ valid_role_assignments = FALSE
    /\ review_conds = <<>>
    /\ copy_log = <<>>
    /\ tech_from_task_status = None
    /\ from_task_wip = 0
    /\ qc_task_status = <<>>
    /\ source_exists = <<>>
    /\ config_writes = <<>>

\* The Submission dialog on its own: no run of publish() / update_version()
SubmitInit ==
    /\ NoRun("submit_files")
    /\ self \in ShownDialogs
    /\ fs = NoCopy
    /\ world = NoWorld

SubmitNext ==
    \/ OpenDialog
    \/ ClearFiles
    \/ SubmitFiles

SubmitSpec == SubmitInit /\ [][SubmitNext]_vars

\* sg_file_operations.copy() on its own: one call, on any disk
CopyInit ==
    /\ NoRun("copy")
    /\ self = NoDialog
    /\ fs \in { c \in CopyCalls : PossibleCopyCall(c) }
    /\ world = NoWorld

CopyNext == Copy

CopySpec == CopyInit /\ [][CopyNext]_vars

\* Runs on a shared store: two users on one task, or one run whose items are
\* linked through the store
WorldInit ==
    /\ NoRun("publish")
    /\ self = NoDialog
    /\ fs = NoCopy
    /\ world \in RaceWorlds \cup TechfixWorlds \cup ClientQcWorlds
                \cup SharedTaskWorlds

WorldNext ==
    \E r \in 1..2 :
        \/ RunInit(r)
        \/ RunItem(r)
        \/ RunBatch(r)

WorldSpec == WorldInit /\ [][WorldNext]_vars

\* The three handlers that read the config records: a run of publish() or
\* update_version(), or a Submission dialog
HandlersInit == Init \/ SubmitInit

HandlersNext == Next \/ SubmitNext

HandlersSpec == HandlersInit /\ [][HandlersNext]_vars

(***************************************************************************)
(* Properties                                                              *)
(***************************************************************************)
\* the operations submitted to the store by the run's batch() call
FlushedOps == IF store_calls = <<>> THEN <<>> ELSE store_calls[1].ops

\* some config record matches the task's entity type, step and task-name key
HasConfig(t) ==
    \E k \in DOMAIN task_config_data :
        /\ task_config_data[k].entityType = t.linkType
        /\ task_config_data[k].pathSheetName = t.step
        /\ task_config_data[k].taskName = ConfigTaskName(t.name, t.split)

\* the matched config record of a task that has one
ConfigOf(t) ==
    LastOf(MatchingConfigs(task_config_data, t.linkType, t.step,
                           ConfigTaskName(t.name, t.split)))

\* the step from "validate" appended exactly one failed row with this reason
FailedWith(reasons) ==
    \E r \in reasons : report_list' = Append(report_list, Row(idx, "NO", <<r>>))

\* every selected item has its own outcome row
AllItemsHaveRows ==
    \A i \in 1..n : \E k \in DOMAIN report_list : report_list[k].item = i

\* every copy attempted for item i succeeded and its payload was built
CleanCopies(i) ==
    \A k \in DOMAIN copy_log :
        copy_log[k].item = i => copy_log[k].copy_status /\ copy_log[k].built

\* C1: in a run over several items a failure of one item never aborts the run:
\* when the run ends (and the flush itself did not raise) every selected item
\* has its own outcome row.
C1_ItemFailureNeverAborts ==
    (pc = "done" /\ n >= 2 /\ fatal # E_BATCH) => AllItemsHaveRows

\* the item that queued the update at position k of ops: the originating-task
\* update of the techfix cascade directly follows the item's techfix record update
UpdateOwner(ops, k) ==
    IF ops[k].entity_id \in 1..n THEN ops[k].entity_id
    ELSE IF k > 1 /\ ops[k - 1].request_type = "update"
         THEN ops[k - 1].entity_id ELSE 0

UpdatesOnlyAfterCleanCopies(ops) ==
    \A k \in DOMAIN ops :
        ops[k].request_type = "update" =>
            /\ UpdateOwner(ops, k) \in 1..n
            /\ CleanCopies(UpdateOwner(ops, k))

\* C2: in publish(), every update (Task status, techfix cascade, tracked
\* entity) that is queued, and every update in the flushed batch, belongs to an
\* item all of whose attempted copies succeeded and all of whose payloads were
\* built.
C2_UpdatesOnlyAfterCleanCopies ==
    func = "publish" =>
        /\ UpdatesOnlyAfterCleanCopies(batch_data)
        /\ UpdatesOnlyAfterCleanCopies(FlushedOps)

\* an item with a failed copy was reported, and the batch of the run was flushed
C2_Witness ==
    /\ func = "publish" /\ pc = "done" /\ fatal = None
    /\ \E k \in DOMAIN copy_log : ~copy_log[k].copy_status
    /\ \E j \in DOMAIN FlushedOps : FlushedOps[j].request_type = "update"


\* the row of item i in a run that ended without an exception
RowOf(i) == report_list[i]

IsCreateOf(op, i) == op.request_type = "create" /\ op.data.task = i
IsTaskUpdateOf(op, i) ==
    op.request_type = "update" /\ op.entity_type = "Task" /\ op.entity_id = i

\* a mandatory slot of item i had no source file
MandatorySourceMissing(i) ==
    \E k \in DOMAIN copy_log :
        copy_log[k].item = i /\ copy_log[k].mandatory /\ ~copy_log[k].exists

\* C3: in publish(), an item with a mandatory slot whose source is absent is
\* reported Success=NO, and the flushed batch holds no PublishedFile create and
\* no Task status update of that item.
C3_MandatoryMissingQueuesNothing ==
    (func = "publish" /\ pc = "done" /\ fatal = None) =>
        \A i \in 1..n :
            MandatorySourceMissing(i) =>
                /\ RowOf(i).Success = "NO"
                /\ \A j \in DOMAIN FlushedOps :
                      /\ ~IsCreateOf(FlushedOps[j], i)
                      /\ ~IsTaskUpdateOf(FlushedOps[j], i)

\* C4: the flushed batch of a publish() run holds exactly one PublishedFile
\* create per successful copy of each successful item, and none of an item
\* whose outcome is Success=NO.
C4_CreatesMatchSuccessfulCopies ==
    (func = "publish" /\ pc = "done" /\ fatal = None /\ store_calls # <<>>) =>
        \A i \in 1..n :
            LET creates == Cardinality({ j \in DOMAIN FlushedOps :
                                           IsCreateOf(FlushedOps[j], i) })
                copies == Cardinality({ k \in DOMAIN copy_log :
                              copy_log[k].item = i /\ copy_log[k].built })
            IN  IF RowOf(i).Success = "YES" THEN creates = copies ELSE creates = 0

\* batch() is the only mutating store call, issued at most once, with the
\* accumulated list, after the last item
OnlyOneBatchAfterLoop ==
    /\ Len(store_calls) <= 1
    /\ \A j \in DOMAIN store_calls :
          /\ store_calls[j].call = "batch"
          /\ store_calls[j].ops = batch_data
          /\ idx > n

\* C5 as stated: batch() is called at most once, only after the last item,
\* and, when the run has ended, it was called if and only if the accumulated
\* list is non-empty; no other store mutation is issued.
C5_FlushIffNonEmpty ==
    /\ OnlyOneBatchAfterLoop
    /\ pc = "done" => (store_calls # <<>> <=> batch_data # <<>>)

\* C5, amended: batch() is called at most once, only after the last item, and
\* it is called if and only if the item loop ran to its end without an
\* exception and the accumulated list is non-empty: the operations accumulated
\* before an item raised are never submitted.
C5_FlushIffLoopCompletedNonEmpty ==
    /\ OnlyOneBatchAfterLoop
    /\ pc = "done" => (store_calls # <<>> <=> (idx > n /\ batch_data # <<>>))

\* a run of two items ended having submitted its batch once
C5_Witness ==
    /\ pc = "done" /\ n >= 2 /\ Len(store_calls) = 1
    /\ store_calls[1].ops # <<>>


\* the step taken from "validate" queued nothing and called no store mutation
NothingQueued ==
    /\ batch_data' = batch_data
    /\ publish_batch_data' = publish_batch_data
    /\ store_calls' = store_calls

\* a fetched item for which no config record matches
NoConfigItem == pc = "validate" /\ task # NoTask /\ ~HasConfig(task)

\* C6 as stated: an item for which no config record matches gets a Success=NO
\* row with the config-missing reason, and nothing is queued while it is
\* processed, in publish() and in update_version().
C6_NoConfigFailsWithConfigMissing ==
    [][NoConfigItem => (FailedWith({R_NOCONFIG}) /\ NothingQueued)]_vars

\* C6, amended: such an item gets a Success=NO row and nothing is queued while
\* it is processed; the reason is the config-missing one, except that
\* publish() looks the tracked entity up first and reports the
\* entity-not-found reason when that lookup returns nothing.
C6_NoConfigFailsBeforeQueueing ==
    [][NoConfigItem =>
          /\ FailedWith(IF func = "publish" THEN {R_NOCONFIG, R_ENTITY}
                        ELSE {R_NOCONFIG})
          /\ NothingQueued]_vars

\* the second item of a run failed for want of a config after the first succeeded
C6_Witness ==
    /\ Len(report_list) >= 2 /\ fatal = None
    /\ report_list[1].Success = "YES"
    /\ report_list[2] = Row(2, "NO", <<R_NOCONFIG>>)

\* the raw field is null, empty, or no literal that can be parsed
RawUnusable(x) == x = None \/ x = "" \/ x \notin ParsableLiterals \/ x = S_EMPTY

\* a fetched item whose matched config record has a null or unparsable
\* statusConfig or (publish) fileConfig
EmptyConfigItem ==
    /\ pc = "validate" /\ task # NoTask /\ HasConfig(task)
    /\ \/ RawUnusable(ConfigOf(task).statusConfig)
       \/ func = "publish" /\ RawUnusable(ConfigOf(task).fileConfig)

\* C7: an item whose matched config has a null or unparsable statusConfig or
\* fileConfig gets a failed row of its own (config-empty reason, or the
\* entity-not-found reason of the earlier lookup) and the run goes on: no
\* exception ends it.
C7_EmptyConfigFailsItemOnly ==
    [][EmptyConfigItem =>
          /\ FailedWith({R_EMPTY, R_EMPTY_REVIEW, R_ENTITY})
          /\ fatal' = None]_vars

\* the status map of the action for task t, with the override merged
EffectiveMap(t) ==
    ActionStatusMap(LiteralValue(ConfigOf(t).statusConfig), "publish",
                    EndsWithTechFix(t.name), ConfigOf(t).qcProcess)

\* the matched config of t has a status map for the publish action
HasPublishMap(t) ==
    /\ HasConfig(t)
    /\ ConfigOf(t).statusConfig \in ParsableLiterals
    /\ "publish" \in DOMAIN LiteralValue(ConfigOf(t).statusConfig)

\* a fetched publish item outside the client-QC steps whose current status is
\* no key of the effective status map
InvalidStatusItem ==
    /\ func = "publish" /\ pc = "validate"
    /\ HasPublishMap(task)
    /\ task.step \notin clientQcSteps
    /\ task.status \notin DOMAIN EffectiveMap(task)

\* the step taken from "validate" called no role check, copied nothing and
\* queued nothing
BeforeRoleCopyQueue ==
    /\ role_checked' = FALSE
    /\ copy_log' = copy_log
    /\ NothingQueued

ToleratedQcItem ==
    /\ func = "publish" /\ pc = "validate"
    /\ task.step \in clientQcSteps
    /\ HasConfig(task)
    /\ ConfigOf(task).statusConfig \in ParsableLiterals \cup {None}
    /\ ConfigOf(task).fileConfig \in ParsableLiterals \cup {None}
    /\ \/ ~RawTruthy(ConfigOf(task).statusConfig)
       \/ ~RawTruthy(ConfigOf(task).fileConfig)
       \/ ConfigOf(task).statusConfig = S_EMPTY
       \/ ~HasPublishMap(task)
       \/ task.status \notin DOMAIN EffectiveMap(task)

\* C9: for a client-QC step, absence of the current status from the status map
\* (or an empty status/file config) is tolerated: the iteration raises nothing
\* and the rows of the other items stay.
C9_ClientQcToleratesAbsence ==
    [][ToleratedQcItem =>
          /\ fatal' = None
          /\ \A k \in DOMAIN report_list :
                k \in DOMAIN report_list' /\ report_list'[k] = report_list[k]]_vars

\* the next status the configured map alone gives the current status
ConfiguredNext(t) ==
    LiteralValue(ConfigOf(t).statusConfig)["publish"][t.status]

\* C10: in publish(), the next status resolved for a techfix or no-QC item
\* whose current status is tlapr or movapr is pub, whatever the configured map
\* holds for that status; for every other item it is what the configured map
\* holds for the current status.
C10_OverrideForced ==
    (func = "publish" /\ pc = "slots") =>
        IF (EndsWithTechFix(task.name) \/ ~ConfigOf(task).qcProcess)
           /\ task.status \in {"tlapr", "movapr"}
        THEN next_status = "pub"
        ELSE next_status = ConfiguredNext(task)

\* a no-QC item in tlapr, which the configured map sends to cmpt, resolved to pub
C10_Witness ==
    /\ func = "publish" /\ pc = "slots"
    /\ ~ConfigOf(task).qcProcess /\ task.status = "tlapr"
    /\ ConfiguredNext(task) = "cmpt"
    /\ next_status = "pub"


\* the acting user satisfies the lead condition and the supervisor condition
\* for the fetched task
BothPathsItem ==
    /\ func = "update_version" /\ pc = "validate" /\ task # NoTask
    /\ current_user \in LeadRoles /\ task.teamLead = "me"
    /\ current_user \in SupRoles /\ task.supervisor = "me"

\* the step taken from "validate" called the role check and it passed
PassedRoleCheck == role_checked' /\ ~FailedWith({R_ROLE})

\* C11: in update_version(), an item whose user satisfies both the lead and the
\* supervisor condition and that gets to the lead/supervisor check is judged on
\* the lead path only: it is denied with the lead reason when the task status
\* or the version status is not valid for the lead, and is never denied with a
\* supervisor reason or as matching neither path.
C11_BothPathsUsesLeadOnly ==
    [][(BothPathsItem /\ PassedRoleCheck) =>
          IF task.status \notin validLeadStatus
          THEN FailedWith({R_LEAD_TASK}) /\ NothingQueued
          ELSE IF version.status \notin validLeadVerStatus
          THEN FailedWith({R_LEAD_VER}) /\ NothingQueued
          ELSE ~FailedWith({R_SUP_TASK, R_SUP_VER, R_NOUSER})]_vars

\* a user matching both conditions was denied with the lead task reason
C11_Witness ==
    /\ func = "update_version" /\ review_conds = <<TRUE, TRUE>>
    /\ report_list # <<>>
    /\ report_list[Len(report_list)].Reason = <<R_LEAD_TASK>>


\* the lead and the supervisor condition of the acting user for the fetched task
LeadCond == current_user \in LeadRoles /\ task.teamLead = "me"
SupCond == current_user \in SupRoles /\ task.supervisor = "me"

\* the reason of the authorization denial of the fetched item, None when the
\* item is authorized
DenialReason ==
    IF LeadCond
    THEN IF task.status \notin validLeadStatus THEN R_LEAD_TASK
         ELSE IF version.status \notin validLeadVerStatus THEN R_LEAD_VER
         ELSE None
    ELSE IF SupCond
    THEN IF task.status \notin validSupStatus THEN R_SUP_TASK
         ELSE IF version.status \notin validSupVerStatus THEN R_SUP_VER
         ELSE None
    ELSE R_NOUSER

\* C12: in update_version(), every authorization denial of an item that gets to
\* the lead/supervisor check (lead path with an invalid task or version status,
\* supervisor path with an invalid task or version status, user on neither
\* path) appends a Success=NO row with the reason of that path and queues
\* nothing; a team lead acting on a task whose status is not in validLeadStatus
\* gets 'Task status is not valid for the Lead review'.
C12_DenialRowAndNothingQueued ==
    [][(func = "update_version" /\ pc = "validate" /\ task # NoTask
        /\ PassedRoleCheck /\ DenialReason # None) =>
          /\ FailedWith({DenialReason})
          /\ NothingQueued]_vars

\* a team lead's second item was denied on its task status after the first
\* item was accepted and queued its updates
C12_Witness ==
    /\ func = "update_version" /\ review_conds = <<TRUE, FALSE>>
    /\ Len(report_list) = 2 /\ report_list[1].Success = "YES"
    /\ report_list[2] = Row(2, "NO", <<R_LEAD_TASK>>)
    /\ Len(batch_data) = 2


\* C13: in publish() and update_version() the role-assignment check comes
\* before the lead/supervisor conditions and before any file copy: a copy is
\* attempted, and the lead/supervisor conditions are evaluated, only for an item
\* whose role check passed; when the check fails the item gets a Success=NO row
\* with the check's message, whoever the acting user is for the task, and
\* nothing is copied or queued.
C13_RoleCheckFirst ==
    [][/\ (pc = "validate" /\ role_checked' /\ ~valid_role_assignments') =>
              /\ FailedWith({R_ROLE})
              /\ NothingQueued
              /\ copy_log' = copy_log
              /\ review_conds' = <<>>
       /\ copy_log' # copy_log => (role_checked /\ valid_role_assignments)
       /\ review_conds' # <<>> => (role_checked' /\ valid_role_assignments')]_vars

\* a user with a lead role was denied by the role check on the second item,
\* after the first item was accepted
C13_Witness ==
    /\ func = "update_version" /\ current_user \in LeadRoles
    /\ role_checked /\ ~valid_role_assignments
    /\ Len(report_list) = 2 /\ report_list[1].Success = "YES"
    /\ report_list[2] = Row(2, "NO", <<R_ROLE>>)


\* the step ends the iteration of a techfix task of publish() with success
TechfixPublished ==
    /\ func = "publish" /\ pc = "slots" /\ file_configs = <<>>
    /\ EndsWithTechFix(task.name)
    /\ report_list' = Append(report_list, Row(idx, "YES", <<R_PUBLISHED>>))

\* the step queued the techfix-done update of the originating task
ThdnQueued ==
    \E k \in DOMAIN batch_data' :
        /\ k > Len(batch_data)
        /\ batch_data'[k] = UpdateOp("Task", OriginTaskId, "thdn")

\* C14 as stated: when publish() successfully processes a techfix task whose
\* originating task has N other pending techfix records, the update of the
\* originating task to 'thdn' is queued if and only if N = 0.
C14_ThdnIffNonePending ==
    [][TechfixPublished => (ThdnQueued <=> from_task_wip' = 0)]_vars

\* C14, amended: the update of the originating task to 'thdn' is queued if and
\* only if the originating task's current status is 'tfhl' and N = 0; with
\* N = 1, 2 or 3, or with the originating task in another status, no
\* originating-task update is queued.
C14_ThdnIffOnHoldAndNonePending ==
    [][TechfixPublished =>
          (ThdnQueued <=> (tech_from_task_status' = "tfhl" /\ from_task_wip' = 0))]_vars

\* a techfix task was published while three other techfix records of its
\* originating task, which is on techfix hold, were pending: no update of the
\* originating task is queued
C14_Witness ==
    /\ func = "publish" /\ pc = "loop"
    /\ tech_from_task_status = "tfhl" /\ from_task_wip = 3
    /\ report_list # <<>> /\ report_list[Len(report_list)].Success = "YES"
    /\ \A k \in DOMAIN batch_data :
          batch_data[k] # UpdateOp("Task", OriginTaskId, "thdn")


\* the operations the step appended to batch_data
NewOps == SubSeq(batch_data', Len(batch_data) + 1, Len(batch_data'))

\* C15: in publish() and update_version(), the iteration of a techfix task only
\* appends to the batch, and a Task status update of the techfix task is
\* appended only after an update of the task's TechFixRecord with the same
\* status value; when the TechFixRecord is not found nothing is queued; and the
\* flush submits the accumulated sequence as it is.
C15_TechFixRecordBeforeTask ==
    [][/\ (pc \in {"validate", "slots"} /\ task # NoTask
           /\ EndsWithTechFix(task.name)) =>
              /\ Len(batch_data') >= Len(batch_data)
              /\ SubSeq(batch_data', 1, Len(batch_data)) = batch_data
              /\ \A k \in DOMAIN NewOps :
                    IsTaskUpdateOf(NewOps[k], task.id) =>
                        \E j \in 1..(k - 1) :
                            NewOps[j] = UpdateOp("CustomEntity04", task.id,
                                                 NewOps[k].data.sg_status_list)
              /\ FailedWith({R_NOTECH}) => NothingQueued
       /\ store_calls' # store_calls =>
              store_calls'[Len(store_calls')].ops = batch_data]_vars

\* the flushed batch of a run holds the Task update of a techfix task, after
\* the update of its TechFixRecord
C15_Witness ==
    /\ pc = "done" /\ fatal = None
    /\ \E k \in DOMAIN FlushedOps, j \in DOMAIN FlushedOps :
          /\ j < k
          /\ FlushedOps[j].request_type = "update"
          /\ FlushedOps[j].entity_type = "CustomEntity04"
          /\ IsTaskUpdateOf(FlushedOps[k], FlushedOps[j].entity_id)


\* the step ends the iteration of an Asset task on a paired client-QC step
ClientQcFinish ==
    /\ func = "publish" /\ pc = "slots" /\ file_configs = <<>>
    /\ task.linkType = "Asset" /\ task.step \in {"RigClientQC", "LgtClientQC"}

\* the step queued the update of the asset to 'rfp'
RfpQueued ==
    \E k \in DOMAIN NewOps : NewOps[k] = UpdateOp("Asset", task.id, "rfp")

\* C16: in publish(), for an Asset task on RigClientQC or LgtClientQC, the
\* update of the asset to 'rfp' is queued only when the task's next status is
\* 'pub' and the task of the paired step has status 'pub'; when the paired task
\* is not found the item gets a Success=NO row naming the paired step.
C16_RfpOnlyWhenBothPublished ==
    [][ClientQcFinish =>
          /\ RfpQueued => (next_status = "pub" /\ qc_task_status' = <<"pub">>)
          /\ qc_task_status' = <<"none">> =>
                FailedWith({IF task.step = "RigClientQC"
                            THEN R_NOLGTQC ELSE R_NORIGQC})]_vars

\* a client-QC task went to 'pub' while the paired task is published: the
\* asset update to 'rfp' is in the batch
C16_Witness ==
    /\ func = "publish" /\ pc = "loop" /\ qc_task_status = <<"pub">>
    /\ report_list = << Row(1, "YES", <<R_PUBLISHED>>) >>
    /\ \E k \in DOMAIN batch_data : batch_data[k] = UpdateOp("Asset", 1, "rfp")


\* C17: when an exception escapes an item or the batch flush of publish() or
\* update_version(), the returned report is the single synthetic row (empty
\* labels, Success=NO, the error detail as reason), whatever rows were built
\* before; and when it was raised before the flush, no batch was submitted.
C17_FatalReturnsOneSyntheticRow ==
    fatal # None =>
        /\ pc = "done"
        /\ report_list = << Row(0, "NO", <<R_TRACEBACK>>) >>
        /\ fatal # E_BATCH => store_calls = <<>>

\* the second item raised after the first one had its row and had queued
\* operations: one row is returned and nothing was submitted
C17_Witness ==
    /\ fatal \notin {None, E_BATCH} /\ idx = 2 /\ batch_data # <<>>
    /\ Len(report_list) = 1 /\ store_calls = <<>>


\* C18: in a run of publish() or update_version() without a fatal error, every
\* finished item has exactly one row, at its input position, whichever path the
\* item took; the rows already appended are never changed; and the returned
\* report has one row per selected item.
C18_OneRowPerItemInOrder ==
    [][fatal' = None =>
          /\ Len(report_list') = idx' - 1
          /\ \A i \in DOMAIN report_list : report_list'[i] = report_list[i]
          /\ \A i \in DOMAIN report_list' : report_list'[i].item = i
          /\ pc' = "done" => Len(report_list') = n]_vars

\* a finished run of two items, the first of which left through an early exit
\* and the second through the success path
C18_Witness ==
    /\ pc = "done" /\ fatal = None /\ n = 2 /\ Len(report_list) = 2
    /\ report_list[1].item = 1 /\ report_list[1].Success = "NO"
    /\ report_list[2].item = 2 /\ report_list[2].Success = "YES"


\* the copies made for the item that is being finished
ItemCopies == { k \in DOMAIN copy_log : copy_log[k].item = task.id }

\* the step ends the iteration of an item of publish() that passed validation
\* and the role check, had a mandatory slot copied, and saw every copy succeed
CopiedMandatoryFinish ==
    /\ func = "publish" /\ pc = "slots" /\ file_configs = <<>>
    /\ \E k \in ItemCopies : copy_log[k].mandatory /\ copy_log[k].exists
    /\ \A k \in ItemCopies : copy_log[k].copy_status

\* the step reported success and queued the Task update to the next status and
\* a PublishedFile create for every copy of the item
SucceededWithTaskAndFiles ==
    /\ report_list' = Append(report_list, Row(idx, "YES", <<R_PUBLISHED>>))
    /\ \E j \in DOMAIN NewOps : NewOps[j] = UpdateOp("Task", task.id, next_status)
    /\ \A k \in ItemCopies :
          \E j \in DOMAIN NewOps :
             /\ NewOps[j].request_type = "create"
             /\ NewOps[j].entity_type = "PublishedFile"
             /\ NewOps[j].data.task = task.id
             /\ NewOps[j].data.published_file_type = copy_log[k].slot

MandatoryUnattached ==
    IF self.file_configs.kind = "dict"
    THEN { self.file_configs.slots[k].name : k \in
             { j \in DOMAIN self.file_configs.slots :
                 /\ self.file_configs.slots[j].mandatory
                 /\ self.file_configs.slots[j].name \notin self.files_dict } }
    ELSE {}

\* C20: when Submit is pressed while a mandatory slot has no attached file,
\* submit_files() shows one "Missing Files" warning whose text names every
\* mandatory slot without a file, copies nothing, issues no record-store
\* mutation, keeps the attachments, leaves the dialog open and has the Submit
\* and Clear buttons enabled when it returns.
C20_MissingMandatoryKeepsDialog ==
    [][(self'.handler = "submit_files" /\ MandatoryUnattached # {}) =>
          /\ Len(self'.boxes) = 1
          /\ self'.boxes[1].kind = "warning" /\ self'.boxes[1].title = B_MISSING
          /\ \A name \in MandatoryUnattached :
                \E k \in DOMAIN self'.boxes[1].text : self'.boxes[1].text[k] = name
          /\ self'.copies = self.copies
          /\ self'.updates = self.updates
          /\ self'.files_dict = self.files_dict
          /\ self'.visible /\ self'.submit_enabled /\ self'.clear_enabled]_vars

\* Submit was pressed with one of two mandatory slots attached and an earlier
\* submission of the optional slot on disk: the warning names the missing
\* mandatory slot, nothing was copied or written, the dialog is open and the
\* buttons are enabled
C20_Witness ==
    /\ self.handler = "submit_files" /\ self.files_dict = {"Maya File"}
    /\ Len(self.boxes) = 1 /\ self.boxes[1].title = B_MISSING
    /\ self.boxes[1].text = << "Frames", "Mov File" >>
    /\ self.copies = <<>> /\ self.updates = <<>>
    /\ self.visible /\ self.submit_enabled /\ self.clear_enabled


\* the step processes an optional slot of publish() whose source was looked
\* for and does not exist
OptionalAbsentSlot ==
    /\ func = "publish" /\ pc = "slots" /\ file_configs # <<>>
    /\ ~Head(file_configs).mandatory
    /\ source_exists' = << FALSE >>

\* C21: in publish(), a slot that is not mandatory and whose source path does
\* not exist is skipped: no copy is attempted for it, no PublishedFile create is
\* produced for it, and overall_status and overall_msg stay as they were.
C21_OptionalAbsentSlotSkipped ==
    [][OptionalAbsentSlot =>
          /\ copy_log' = copy_log
          /\ publish_batch_data' = publish_batch_data
          /\ overall_status' = overall_status
          /\ overall_msg' = overall_msg]_vars

\* an optional slot without source was just passed over in an item that is
\* still in good standing, with its mandatory slot yet to come
C21_Witness ==
    /\ func = "publish" /\ pc = "slots" /\ source_exists = << FALSE >>
    /\ overall_status /\ copy_log = <<>> /\ publish_batch_data = <<>>
    /\ file_configs = << MayaSlot >>


OverwriteReadOnly ==
    /\ ~fs.called /\ fs'.called /\ fs'.status
    /\ fs.overwrite /\ fs.destination # "absent" /\ "w" \notin fs.destination_mode

\* C23: when copy() is called with overwrite=True on an existing destination
\* that is not writable, the destination is made writable before the copy and,
\* once the copy has completed, its permission mode is the original one again.
C23_ModeRestoredAfterOverwrite ==
    [][OverwriteReadOnly =>
          /\ fs'.chmods # <<>>
          /\ "w" \in fs'.chmods[1]
          /\ fs'.destination_mode = fs.destination_mode]_vars


\* the Task updates a run queued for a task, in the order queued
TaskUpdatesOf(run, id) ==
    SelectSeq(run.batch, LAMBDA op : /\ op.request_type = "update"
                                     /\ op.entity_type = "Task"
                                     /\ op.entity_id = id)

\* two runs that read task 1 before any batch was applied and that both queued
\* an update of it
BothReadBeforeFlush ==
    /\ Len(world.runs) = 2
    /\ \A r \in 1..2 : /\ world.runs[r].pc \in {"loop", "flushed"}
                       /\ world.runs[r].read_after = 0
                       /\ world.runs[r].idx > Len(world.runs[r].sel)
                       /\ TaskUpdatesOf(world.runs[r], 1) # <<>>

\* C24: two runs on the same task that both read its status before either
\* sends its batch both send it, none fails or reports the conflict, and the
\* task's status in the store is then the one queued by the run that sent its
\* batch last
C24_LastFlushWins ==
    BothReadBeforeFlush =>
        /\ \A r \in 1..2 :
              /\ world.runs[r].pc = "loop" => ENABLED RunBatch(r)
              /\ \A k \in DOMAIN world.runs[r].rows :
                    world.runs[r].rows[k].Success = "YES"
        /\ Len(world.flushed) = 2 =>
              world.store.tasks[1]
                 = LastOf(TaskUpdatesOf(world.runs[world.flushed[2]], 1))
                      .data.sg_status_list

\* both runs sent their batch, the second one having computed its value from
\* a status the first one had replaced by another
C24_Witness ==
    /\ BothReadBeforeFlush
    /\ Len(world.flushed) = 2
    /\ LET early == LastOf(TaskUpdatesOf(world.runs[world.flushed[1]], 1))
                        .data.sg_status_list
           late == LastOf(TaskUpdatesOf(world.runs[world.flushed[2]], 1))
                        .data.sg_status_list
       IN  /\ early # world.first.tasks[1]
           /\ early # late
           /\ world.store.tasks[1] = late


\* the config record an item is resolved with, when it has one
HasResolvingConfig(t) ==
    /\ HasConfig(t)
    /\ ~LiteralEvalRaises(LastOf(MatchingConfigs(task_config_data, t.linkType, t.step,
                                  ConfigTaskName(t.name, t.split))).statusConfig)

ResolvingConfig(t) ==
    LastOf(MatchingConfigs(task_config_data, t.linkType, t.step,
                           ConfigTaskName(t.name, t.split)))

\* whether the override of 260-262 is merged into the item's status map
OverrideApplies(t) ==
    EndsWithTechFix(t.name) \/ ~ResolvingConfig(t).qcProcess

\* what an item presents to the status resolution: its parsed statusConfig and
\* its current status (the action is the run's), and whether the override applies
StatusInputs(t) ==
    [cfg |-> LiteralValue(ResolvingConfig(t).statusConfig), status |-> t.status,
     override |-> OverrideApplies(t)]

\* two items that present the same parsed statusConfig and the same current
\* status, and the same override flag when by_override is set
SameStatusInputs(i1, i2, by_override) ==
    /\ i1.cfg = i2.cfg
    /\ i1.status = i2.status
    /\ by_override => i1.override = i2.override

\* what publish() resolves every item it can be given to
PublishResolutions ==
    { [inputs |-> StatusInputs(t2),
       outcome |-> PublishValidate(t2, task_config_data, "publish", TRUE, TRUE)] :
         t2 \in { t \in TaskInputs(1) : HasResolvingConfig(t) } }

\* the status update_version() gives every version it can be given and updates
ReviewResolutions ==
    { [inputs |-> StatusInputs(x[1]),
       status |-> LastOf(ReviewValidate(x[2], x[1], task_config_data, "approve",
                                        x[3], <<>>, TRUE, TRUE).batch)
                     .data.sg_status_list] :
         x \in { y \in ReviewInputs(1) \X VersionInputs(1) \X Roles :
                    /\ HasResolvingConfig(y[1])
                    /\ ReviewValidate(y[2], y[1], task_config_data, "approve",
                                      y[3], <<>>, TRUE, TRUE).kind = "ok" } }

\* the item just resolved by publish() to next_status' agrees with every item
\* that presents the same inputs: that one is resolved to the same status,
\* and is not found invalid
PublishResolvesAlike(by_override) ==
    (pc = "validate" /\ func = "publish" /\ pc' = "slots") =>
        \A e \in PublishResolutions :
            SameStatusInputs(StatusInputs(task), e.inputs, by_override) =>
                /\ e.outcome.kind = "go" => e.outcome.next_status = next_status'
                /\ e.outcome.reason \notin {R_STATUS, E_STATUS}

\* the same for the version just given its new status by update_version()
ReviewResolvesAlike(by_override) ==
    (/\ pc = "validate" /\ func = "update_version" /\ pc' = "loop"
     /\ Len(batch_data') > Len(batch_data)) =>
        \A e \in ReviewResolutions :
            SameStatusInputs(StatusInputs(task), e.inputs, by_override) =>
                e.status = LastOf(batch_data').data.sg_status_list

\* C25 as stated: two items with the same parsed statusConfig, the same action
\* and the same current status are resolved to the same next status, or both
\* to invalid
C25_ResolutionByConfigActionStatus ==
    [][PublishResolvesAlike(FALSE)
       /\ ReviewResolvesAlike(FALSE)]_vars

\* C25: two items with the same parsed statusConfig, the same action, the same
\* current status and the same answer to "is a techfix task or has a config
\* record without QC process" are resolved to the same next status, or both to
\* invalid
C25_ResolutionByConfigActionStatusOverride ==
    [][PublishResolvesAlike(TRUE)
       /\ ReviewResolvesAlike(TRUE)]_vars

\* a techfix task on 'tlapr' resolved to 'pub' where the same config, action
\* and status resolve an ordinary task of a no-QC record to 'pub' as well
C25_Witness ==
    /\ pc = "slots" /\ func = "publish"
    /\ EndsWithTechFix(task.name)
    /\ task.status = "tlapr" /\ next_status = "pub"
    /\ \E t2 \in TaskInputs(idx) :
          /\ HasResolvingConfig(t2)
          /\ SameStatusInputs(StatusInputs(task), StatusInputs(t2), TRUE)
          /\ ~EndsWithTechFix(t2.name)
          /\ PublishValidate(t2, task_config_data, ActionOf(func), TRUE, TRUE)
                .next_status = "pub"


\* the config records that match an item, in the order the store returned them
MatchingRecords(records, etype, step, tname) ==
    SelectSeq(records, LAMBDA c : /\ c.entityType = etype
                                  /\ c.pathSheetName = step
                                  /\ c.taskName = tname)

\* the last of the records of task_config_data that match task t
LastMatching(t) ==
    LET q == MatchingRecords(task_config_data, t.linkType, t.step,
                             ConfigTaskName(t.name, t.split))
    IN  q[Len(q)]

\* an item of publish() that enters the slot loop has the next status and the
\* slots that the last matching record gives
PublishUsesLastRecord ==
    (pc = "validate" /\ func = "publish" /\ pc' = "slots") =>
        LET last == LastMatching(task)
            status_map == ActionStatusMap(LiteralValue(last.statusConfig),
                                          ActionOf(func),
                                          EndsWithTechFix(task.name),
                                          last.qcProcess)
        IN  /\ next_status' = status_map[task.status]
            /\ file_configs' = SelectFileConfigs(ParseOrNone(last.fileConfig),
                                                 next_status', task.step).slots

\* a version that update_version() updates is given the status that the last
\* matching record gives
ReviewUsesLastRecord ==
    (/\ pc = "validate" /\ func = "update_version" /\ pc' = "loop"
     /\ Len(batch_data') > Len(batch_data)) =>
        LET last == LastMatching(task) IN
        batch_data'[Len(batch_data')].data.sg_status_list
            = DictGet(LiteralValue(last.statusConfig)[ActionOf(func)],
                      task.status, None)

\* a dialog that is shown holds the last record of the store's answer
DialogUsesLastRecord ==
    self.visible =>
        self.task_config_data = self.config_query[Len(self.config_query)]

\* C26: when several config records match an item, publish(), update_version()
\* and the submission dialog use the last one in the order the store returned
C26_LastMatchingRecordUsed ==
    [][PublishUsesLastRecord /\ ReviewUsesLastRecord /\ DialogUsesLastRecord']_vars

\* an item with two matching records whose last record alone resolves its
\* status 'apr' to 'pub', entering the slot loop with 'pub' and that record's
\* slots
C26_Witness ==
    /\ pc = "slots" /\ func = "publish"
    /\ Len(MatchingRecords(task_config_data, task.linkType, task.step,
                           ConfigTaskName(task.name, task.split))) = 2
    /\ task.status = "apr" /\ next_status = "pub"


\* the operations the step appends to batch_data
QueuedByStep ==
    { batch_data'[k] : k \in (Len(batch_data) + 1)..Len(batch_data') }

\* C27: every Task or Version update queued by update_version() carries the
\* configured successor of the task's current status in the action's status
\* map; an item whose task status is absent from that map gets Success=NO and
\* queues no update with a null status
C27_ReviewQueuesConfiguredSuccessor ==
    [][(pc = "validate" /\ func = "update_version" /\ pc' = "loop"
        /\ HasResolvingConfig(task)
        /\ ActionOf(func) \in DOMAIN LiteralValue(ResolvingConfig(task).statusConfig))
       =>
       LET status_map == LiteralValue(ResolvingConfig(task).statusConfig)[ActionOf(func)]
       IN  /\ \A op \in QueuedByStep :
                 op.entity_type \in {"Task", "Version"} =>
                    /\ task.status \in DOMAIN status_map
                    /\ op.data.sg_status_list = status_map[task.status]
                    /\ op.data.sg_status_list # None
           /\ task.status \notin DOMAIN status_map =>
                 report_list'[Len(report_list')].Success = "NO"]_vars


\* the reasons of an item failed for a missing linked record
MissingLinkReasons == { <<R_NOFROM>>, <<R_NOLGTQC>>, <<R_NORIGQC>> }

\* an operation of the batch that belongs to the i-th item: the update of its
\* TechFixRecord or the create of one of its PublishedFiles
OperationOfItem(op, i) ==
    \/ /\ op.request_type = "update" /\ op.entity_type = "CustomEntity04"
       /\ op.entity_id = i
    \/ /\ op.request_type = "create" /\ op.data.task = i

\* C28: an item of publish() that is failed, after its copies succeeded, because
\* its TechFixRecord has no source task or its paired client-QC task is not
\* found queues nothing when it is failed, and the flushed batch holds no
\* TechFixRecord update and no PublishedFile create of that item
C28_FailedLinkLeavesNoOperation ==
    /\ [][(/\ pc = "slots" /\ pc' = "loop"
           /\ report_list'[Len(report_list')].Success = "NO"
           /\ report_list'[Len(report_list')].Reason \in MissingLinkReasons)
          => batch_data' = batch_data]_vars
    /\ [](\A k \in DOMAIN report_list :
            (/\ report_list[k].Success = "NO"
             /\ report_list[k].Reason \in MissingLinkReasons)
            => \A j \in DOMAIN FlushedOps :
                  ~OperationOfItem(FlushedOps[j], report_list[k].item))


\* run 1 is a publish() run that has sent its batch after reporting Success=YES
\* for each of the two tasks a and b
PublishedBoth(a, b) ==
    /\ Len(world.runs) = 1
    /\ world.runs[1].func = "publish" /\ world.runs[1].pc = "flushed"
    /\ { world.runs[1].sel[k] : k \in DOMAIN world.runs[1].sel } = {a, b}
    /\ \A k \in DOMAIN world.runs[1].rows : world.runs[1].rows[k].Success = "YES"

\* the techfix records of originating task o that are pending in a store
PendingRecords(store, o) ==
    { r \in DOMAIN store.tech : /\ store.tech[r].from = o
                                /\ store.tech[r].status \notin doneTechfixStatus }

\* C29: when one publish() run publishes all the pending techfix tasks (two of
\* them) of an originating task that is on hold for techfix, then once its
\* batch is applied no techfix record of that task is pending and the task's
\* status is 'thdn'
C29_OriginDoneAfterAllTechfixesPublished ==
    (/\ PublishedBoth(2, 3)
     /\ world.first.tasks[4] = "tfhl"
     /\ PendingRecords(world.first, 4) = {2, 3}
     /\ \A id \in {2, 3} : world.store.tasks[id] = "pub")
    => /\ PendingRecords(world.store, 4) = {}
       /\ world.store.tasks[4] = "thdn"

\* C30: when one publish() run moves the RigClientQC task and the LgtClientQC
\* task of one asset to 'pub', then once its batch is applied the asset's
\* status is 'rfp'
C30_AssetReadyAfterBothClientQcPublished ==
    (/\ PublishedBoth(5, 6)
     /\ \A id \in {5, 6} : /\ world.first.tasks[id] # "pub"
                           /\ world.store.tasks[id] = "pub")
    => world.store.asset = "rfp"


\* the key of the step's default slot set
DefaultSlotKey(step) == IF step = "Lighting" THEN "movcpt" ELSE "cmpt"

\* the item being validated by publish() is resolved to a next status for
\* which its parsed fileConfig has no entry
NextStatusWithoutSlots ==
    /\ pc = "validate" /\ func = "publish"
    /\ HasResolvingConfig(task)
    /\ RawTruthy(ResolvingConfig(task).fileConfig)
    /\ ~LiteralEvalRaises(ResolvingConfig(task).fileConfig)
    /\ DOMAIN LiteralValue(ResolvingConfig(task).fileConfig) # {}
    /\ ActionOf(func) \in DOMAIN LiteralValue(ResolvingConfig(task).statusConfig)
    /\ LET status_map == ActionStatusMap(
                             LiteralValue(ResolvingConfig(task).statusConfig),
                             ActionOf(func), EndsWithTechFix(task.name),
                             ResolvingConfig(task).qcProcess)
       IN  /\ task.status \in DOMAIN status_map
           /\ status_map[task.status]
                 \notin DOMAIN LiteralValue(ResolvingConfig(task).fileConfig)

\* C31: in publish(), an item whose file config has no entry for the next
\* status and that is not given a failed row by the validation uses fileConfig['movcpt']
\* on the Lighting step and fileConfig['cmpt'] on any other step; when that
\* key is absent too it goes on with no slot, without raising
C31_DefaultSlotSetOrNone ==
    [][(NextStatusWithoutSlots /\ (report_list' = report_list \/ fatal' # None)) =>
          LET fc == LiteralValue(ResolvingConfig(task).fileConfig)
              key == DefaultSlotKey(task.step)
          IN  /\ fatal' = None
              /\ pc' = "slots"
              /\ file_configs' = IF key \in DOMAIN fc THEN fc[key].slots ELSE <<>>]_vars


\* the updates of a tracked entity (an Asset or a Shot) the step queued
EntityUpdatesByStep ==
    { op \in QueuedByStep : op.request_type = "update"
                             /\ op.entity_type \in {"Asset", "Shot"} }

\* C32: a successful item of publish() on an Asset queues the asset status
\* 'rfa' on the Rig step and 'rflgt' on the LooknFeel or Texture step; an item
\* on an entity that is not an Asset, or on any other step that is not a
\* client-QC step, queues no update of its tracked entity
C32_AssetStatusByStep ==
    [][(/\ pc = "slots" /\ func = "publish" /\ pc' = "loop"
        /\ report_list'[Len(report_list')].Success = "YES")
       =>
       IF task.linkType = "Asset" /\ task.step = "Rig"
       THEN EntityUpdatesByStep = { UpdateOp("Asset", task.id, "rfa") }
       ELSE IF task.linkType = "Asset" /\ task.step \in {"LooknFeel", "Texture"}
       THEN EntityUpdatesByStep = { UpdateOp("Asset", task.id, "rflgt") }
       ELSE IF task.linkType # "Asset" \/ task.step \notin clientQcSteps
       THEN EntityUpdatesByStep = {}
       ELSE TRUE]_vars

\* a run that published a Texture task of an Asset, with 'rflgt' queued for
\* the asset, and then a second task to 'cmpt', with no Shot update queued
C32_Witness ==
    /\ func = "publish" /\ pc = "loop" /\ idx = 3
    /\ \A k \in DOMAIN report_list : report_list[k].Success = "YES"
    /\ \E k \in DOMAIN batch_data :
          batch_data[k] = UpdateOp("Asset", 1, "rflgt")
    /\ \A k \in DOMAIN batch_data :
          ~(batch_data[k].request_type = "update"
            /\ batch_data[k].entity_type = "Shot")
    /\ \E k \in DOMAIN batch_data :
          batch_data[k] = UpdateOp("Task", 2, "cmpt")


\* C33: the override merged for a techfix or no-QC item of publish() stays with
\* that item: no config record is assigned to by the run, and an item that is
\* neither techfix nor no-QC is resolved by the configured map of its record
C33_OverrideDoesNotLeak ==
    /\ [](config_writes = <<>>)
    /\ [][(/\ pc = "validate" /\ func = "publish" /\ pc' = "slots"
           /\ ~OverrideApplies(task))
          => next_status' = LiteralValue(ResolvingConfig(task).statusConfig)
                               [ActionOf(func)][task.status]]_vars

\* the first item, a techfix task on RigClientQC, was published to 'pub' by the
\* override; the second, an ordinary task with the same config record and the
\* same status 'tlapr', is resolved to the configured 'cmpt'
C33_Witness ==
    /\ func = "publish" /\ pc = "slots" /\ idx = 2
    /\ \E k \in DOMAIN batch_data : batch_data[k] = UpdateOp("CustomEntity04", 1, "pub")
    /\ \E k \in DOMAIN batch_data : batch_data[k] = UpdateOp("Asset", 1, "rfp")
    /\ task.step = "RigClientQC" /\ task.name = <<"Main">>
    /\ task.status = "tlapr" /\ next_status = "cmpt"


\* the store writes and the copies made by the step of the dialog
WrittenByStep ==
    { self'.updates[k] : k \in (Len(self.updates) + 1)..Len(self'.updates) }

CopiedByStep ==
    { self'.copies[k] : k \in (Len(self.copies) + 1)..Len(self'.copies) }

\* a write to the selected task
SelectedTaskWrite(d, op) ==
    /\ op.request_type = "update" /\ op.entity_type = "Task"
    /\ op.entity_id = d.selected_task_id

\* C34: submit_files() writes the selected Task (its status and its internal
\* version) only when every copy it attempted succeeded and the Version was
\* created; after a failed copy or a failed Version creation the Task is not
\* written
C34_TaskWrittenOnlyAfterCopiesAndVersion ==
    [][(\E op \in WrittenByStep : SelectedTaskWrite(self, op)) =>
          /\ self'.handler = "submit_files"
          /\ \A c \in CopiedByStep : c.copy_status
          /\ \E op \in WrittenByStep :
                op.request_type = "create" /\ op.entity_type = "Version"]_vars

\* a submission that copied a file and wrote the selected task
C34_Witness ==
    /\ self.handler = "submit_files"
    /\ self.copies # <<>>
    /\ \A k \in DOMAIN self.copies : self.copies[k].copy_status
    /\ \E k \in DOMAIN self.updates : SelectedTaskWrite(self, self.updates[k])

\* the step of the dialog wrote the status of the techfix record
TechFixRecordAdvanced ==
    \E op \in WrittenByStep :
        /\ op.request_type = "update" /\ op.entity_type = "CustomEntity04"
        /\ op.data.field = "status" /\ op.data.value = self.next_status

\* the step of the dialog wrote the status of the selected task
TaskAdvanced ==
    \E op \in WrittenByStep :
        /\ SelectedTaskWrite(self, op)
        /\ op.data.field = "status" /\ op.data.value = self.next_status

\* C35: after submit_files() on a techfix task the techfix record and the
\* Task carry the same status: the call advanced both or neither, also when
\* the Version creation fails after the copies succeeded
C35_TechFixRecordFollowsTask ==
    [][(self'.handler = "submit_files" /\ self.is_techfix) =>
          (TechFixRecordAdvanced <=> TaskAdvanced)]_vars

\* the writes of an internal version made by the step of the dialog
InternalVersionWrites ==
    { op \in WrittenByStep :
        /\ op.request_type = "update" /\ op.entity_type = "Task"
        /\ \/ op.data.field = "internalVersion"
           \/ SelectedTaskWrite(self, op) }

\* the internal version a write carries
InternalVersionOf(op) ==
    IF op.data.field = "internalVersion" THEN op.data.value
    ELSE op.data.internalVersion

\* the internal version the selected task had when the dialog read it, a null
\* counted as 0
PreviousInternalVersion ==
    IF self.internal_version = <<>> THEN 0 ELSE self.internal_version[1]

\* C36: a successful submit_files() writes the previous internal version plus
\* one (a null previous value counted as 0) to the selected task; for a
\* techfix task every other task the call writes (the 'fsh' tasks of the step
\* and entity, the main task of the techfix record) gets that same value, and
\* the main task is written whenever the record has one
C36_InternalVersionIncremented ==
    [][(\E op \in WrittenByStep : SelectedTaskWrite(self, op)) =>
          /\ \A op \in InternalVersionWrites :
                InternalVersionOf(op) = PreviousInternalVersion + 1
          /\ \A op \in InternalVersionWrites :
                ~SelectedTaskWrite(self, op) => self.is_techfix
          /\ self.is_techfix =>
                \/ \E op \in InternalVersionWrites :
                      op.entity_id = self.selected_task_id + 1
                \/ \E k \in DOMAIN self'.boxes : self'.boxes[k].text = B_NOMAIN]_vars

\* a techfix submission from a null internal version that wrote 1 to the
\* selected task, to the main task and to two 'fsh' tasks
C36_Witness ==
    /\ self.handler = "submit_files" /\ self.is_techfix
    /\ self.internal_version = <<>>
    /\ \A id \in self.selected_task_id..(self.selected_task_id + 3) :
          \E k \in DOMAIN self.updates :
             /\ self.updates[k].entity_type = "Task"
             /\ self.updates[k].entity_id = id
             /\ InternalVersionOf(self.updates[k]) = 1

\* C37: every submit_files() call ends with the dialog closed, or open with
\* the Submit and the Clear button enabled again; it never leaves the dialog
\* open with both buttons disabled
C37_ClosedOrButtonsEnabled ==
    self.handler = "submit_files" =>
        \/ ~self.visible
        \/ self.submit_enabled /\ self.clear_enabled

\* the positions in the copy log of the copies the step made for a slot
CopiesMadeFor(each) ==
    { j \in (Len(self.copies) + 1)..Len(self'.copies) :
        self'.copies[j].slot = each.name }

\* the step is a submit_files() that copies, file by file, a slot of type Files
\* without copyConfig holding two or more files; the destination did not exist
\* (the first copy did not meet one) and no copy met an I/O error
FilesSlotCopied(each) ==
    /\ self'.handler = "submit_files"
    /\ each.type = "Files" /\ CopyConfigOf(each) = None
    /\ each.name \in self.files_dict
    /\ SourceFiles(self, each.name) >= 2
    /\ CopiesMadeFor(each) # {}
    /\ \A j \in CopiesMadeFor(each) : self'.copies[j].msg # M_COPYERR
    /\ LET first == CHOOSE j \in CopiesMadeFor(each) :
                        \A other \in CopiesMadeFor(each) : j <= other
       IN  self'.copies[first].msg # M_EXISTS

\* C38: a slot of type Files without copyConfig, with N >= 2 files attached and
\* a destination directory that does not exist: all N files are copied and every
\* copy of the slot reports success, so the slot leaves the overall status true
C38_FilesSlotCopiesAll ==
    [][\A k \in DOMAIN self.file_configs.slots :
          LET each == self.file_configs.slots[k] IN
          FilesSlotCopied(each) =>
             /\ Cardinality(CopiesMadeFor(each)) = SourceFiles(self, each.name)
             /\ \A j \in CopiesMadeFor(each) : self'.copies[j].copy_status]_vars

\* the selected versions of a review run are two or more versions of one task,
\* each of them valid for the acting user: the task as read at the start and
\* every version carry a status the user's path accepts
ValidVersionsOfOneTask(run) ==
    /\ run.func = "update_version" /\ Len(run.sel) >= 2
    /\ \A i \in DOMAIN run.sel : TaskOfVersion(run.sel[i]) = TaskOfVersion(run.sel[1])
    /\ LET ver_task_id == TaskOfVersion(run.sel[1])
           t == SelectedTask(ver_task_id, run.read[ver_task_id])
       IN  \/ /\ LeadPath(run.user_role, t)
              /\ t.status \in validLeadStatus
              /\ \A i \in DOMAIN run.sel : run.vread[run.sel[i]] \in validLeadVerStatus
           \/ /\ ElifSupPath(run.user_role, t)
              /\ t.status \in validSupStatus
              /\ \A i \in DOMAIN run.sel : run.vread[run.sel[i]] \in validSupVerStatus

\* the positions in a run's batch of the Task updates for a task
TaskUpdatesFor(run, id) ==
    { k \in DOMAIN run.batch :
        /\ run.batch[k].request_type = "update"
        /\ run.batch[k].entity_type = "Task"
        /\ run.batch[k].entity_id = id }

\* C39: an update_version() run over two or more selected versions of the same
\* task, all valid, queues one Task update per version, and every one of them
\* carries the same next status: the successor, in the review map, of the
\* status the run read at its start
C39_SameNextStatusForSharedTask ==
    \A r \in DOMAIN world.runs :
        LET run == world.runs[r] IN
        (run.pc = "flushed" /\ ValidVersionsOfOneTask(run)) =>
            LET ver_task_id == TaskOfVersion(run.sel[1])
                t == SelectedTask(ver_task_id, run.read[ver_task_id])
                status_map == LiteralValue(ResolvingConfig(t).statusConfig)["approve"]
            IN  /\ Cardinality(TaskUpdatesFor(run, ver_task_id)) = Len(run.sel)
                /\ \A k \in TaskUpdatesFor(run, ver_task_id) :
                      run.batch[k].data.sg_status_list = status_map[t.status]
                /\ \A k \in DOMAIN run.rows : run.rows[k].Success = "YES"

\* a flushed review run over two valid versions of one task
C39_Witness ==
    \E r \in DOMAIN world.runs :
        /\ world.runs[r].pc = "flushed"
        /\ ValidVersionsOfOneTask(world.runs[r])
        /\ Cardinality(TaskUpdatesFor(world.runs[r], 1)) = 2

\* the batch() calls of the run that returned: the one call a run makes, unless
\* it raised into the except clause
ReturnedBatches ==
    { k \in DOMAIN store_calls :
        store_calls[k].call = "batch" /\ fatal = None }

\* the Task update of the i-th selected item is among the requests of a call
TaskUpdateIn(ops, i) ==
    \E j \in DOMAIN ops :
        /\ ops[j].request_type = "update" /\ ops[j].entity_type = "Task"
        /\ ops[j].entity_id = i

\* C40: in the report a run returns, every row with Success = YES belongs to
\* an item whose Task update was among the requests of a batch() call that
\* returned without raising; a run whose batch() call raises returns no row
\* with Success = YES
C40_YesRowsWereSent ==
    pc = "done" =>
        /\ \A k \in DOMAIN report_list :
              report_list[k].Success = "YES" =>
                 \E c \in ReturnedBatches :
                    TaskUpdateIn(store_calls[c].ops, report_list[k].item)
        /\ fatal = E_BATCH =>
              \A k \in DOMAIN report_list : report_list[k].Success # "YES"

\* a run of two items that returned a YES row for each after its batch() call
\* returned
C40_Witness ==
    /\ pc = "done" /\ fatal = None
    /\ Len(report_list) = 2
    /\ \A k \in DOMAIN report_list : report_list[k].Success = "YES"
    /\ ReturnedBatches # {}

=============================================================================
